---------------------------- MODULE Spec2Model ----------------------------
(***************************************************************************)
(* A model of the language-server-diagram-tool: the enhanced LSIF graph    *)
(* store (JsonStoreEnhanced), its range locator and moniker resolver, and  *)
(* the naming synthesizer of extract-react-component-diagram.              *)
(*                                                                         *)
(* Strings are sequences of one-character strings wherever the code        *)
(* inspects or rewrites their characters; opaque strings (labels, tag      *)
(* types, uniqueness levels) are TLA+ strings.                             *)
(***************************************************************************)
EXTENDS Integers, Sequences, FiniteSets, TLC

(***************************************************************************)
(* Bounds of the model.                                                    *)
(***************************************************************************)
\* Largest line and character number of a position.
MaxLine == 1
MaxChar == 1
\* Number of edges one input stream holds.
MaxEdges == 3
\* Number of edges of an input stream that draws on every edge label.
MaxIngestEdges == 2
\* Number of entries of a traversal's result array the model records.
MaxResults == 6

VARIABLES
    store,      \* the JsonStoreEnhanced instance: vertices, indices, in/out maps
    phase,      \* "load" (ingesting) | "query" (load finished) | "aborted"
    edges,      \* the edges ingested so far, in stream order
    call,       \* the query in progress or the last one completed
    argv,       \* the command line of the run: [scopes]
    packageMaps,\* packageRootMap, packageBaseMap, packageProjectMap,
                \* projectPackageMap of the script
    named,      \* moniker id -> the name monikerToFqn first returned for it
    model,      \* the ModelIndex of the script: elements and relations
    elementDefinitionRanges, \* Map<Fqn, DefinitionRange>, in insertion order
    resultSetIdsProcessed,   \* Set<number>
    stdout,     \* what the run has written to standard output
    cursor      \* where the builder stands: pass, symbols left, indices

\* The state of the model builder.
builder ==
    <<model, elementDefinitionRanges, resultSetIdsProcessed, stdout, cursor>>

\* The state of the script: untouched by the store's own operations.
script == <<argv, packageMaps, named, builder>>

vars ==
    <<store, phase, edges, call, argv, packageMaps, named, model,
      elementDefinitionRanges, resultSetIdsProcessed, stdout, cursor>>

nEdges == Len(edges)

(***************************************************************************)
(* Vertices.  Ids are small integers; None stands for JavaScript's         *)
(* undefined in a map lookup.                                              *)
(***************************************************************************)
Ids == 1..5
\* An id no vertex of any input carries.
UnknownId == Cardinality(Ids) + 1
None == 0
NoVertex == [label |-> "none"]
\* The value of a query that returns undefined instead of an array of ids.
Undefined == <<None>>

Positions == (0..MaxLine) \X (0..MaxChar)

Pos(l, c) == <<l, c>>
Rng(s, e) == [start |-> s, end |-> e]

\* Position order of lsp.Position: by line, then by character.
PosLT(a, b) == a[1] < b[1] \/ (a[1] = b[1] /\ a[2] < b[2])
PosLE(a, b) == a = b \/ PosLT(a, b)

\* JsonStore.containsPosition(range, position)
containsPosition(range, position) ==
    /\ PosLE(range.start, position)
    /\ PosLE(position, range.end)

\* JsonStore.containsRange(range, otherRange): otherRange lies strictly
\* within range.
containsRange(range, otherRange) ==
    /\ PosLE(range.start, otherRange.start)
    /\ PosLE(otherRange.end, range.end)
    /\ ~(range.start = otherRange.start /\ range.end = otherRange.end)

(***************************************************************************)
(* The store.                                                              *)
(***************************************************************************)
Uris == {"u", "w"}

\* The store after construction, for inputs whose vertices carry the given
\* ids and whose documents carry the given uris.
EmptyStoreOf(ids, uris) ==
    [all          |-> [i \in ids |-> NoVertex],
     documents    |-> [u \in uris |-> <<>>],
     outContains  |-> [i \in ids |-> <<>>],
     inContains   |-> [i \in ids |-> None],
     outNext      |-> [i \in ids |-> None],
     inNext       |-> [i \in ids |-> <<>>],
     outMoniker   |-> [i \in ids |-> None],
     inMoniker    |-> [i \in ids |-> <<>>],
     inAttach     |-> [i \in ids |-> None],
     outAttach    |-> [i \in ids |-> None],
     inPackageInformation |-> [i \in ids |-> <<>>],
     other        |-> {}]

EmptyStore == EmptyStoreOf(Ids, Uris)

EdgeLabels ==
    {"contains", "next", "moniker", "attach", "packageInformation", "item",
     "textDocument_hover", "textDocument_references"}

HasVertex(s, id) == id \in DOMAIN s.all /\ s.all[id] # NoVertex

\* JsonStore.processVertex: the vertex table, and for a document the
\* uri index (indices.documents[uri].documents).
processVertex(s, id, v) ==
    LET s1 == [s EXCEPT !.all[id] = v]
    IN  IF v.label = "document"
        THEN [s1 EXCEPT !.documents[v.uri] = Append(@, id)]
        ELSE s1

\* JsonStore.doProcessEdge (the base class): the per-label adjacency maps.
superDoProcessEdge(s, label, outV, inV) ==
    CASE label = "contains" ->
            [s EXCEPT !.outContains[outV] = Append(@, inV),
                      !.inContains[inV] = outV]
      [] label = "next" ->
            [s EXCEPT !.outNext[outV] = inV]
      [] label = "moniker" ->
            [s EXCEPT !.outMoniker[outV] = inV,
                      !.inMoniker[inV] = Append(@, outV)]
      [] OTHER ->
            IF label \in {"attach", "packageInformation"}
            THEN s
            ELSE [s EXCEPT !.other = @ \cup {<<label, outV, inV>>}]

\* The lookups of doProcessEdgeEnhanced: vertices.all.get(id) === undefined.
MissingOutV(s, outV) == ~HasVertex(s, outV)
\* A variant that never reports the inV endpoint missing.
MissingInVNever(s, inV) == FALSE
MissingInV(s, inV) == ~HasVertex(s, inV)

edgeLookupError(s, outV, inV) ==
    IF MissingOutV(s, outV) THEN <<"No vertex found for Id", outV>>
    ELSE IF MissingInV(s, inV) THEN <<"No vertex found for Id", inV>>
    ELSE <<>>

\* A variant of the switch that records an attach edge the other way round.
enhancedIndicesAttachSwapped(s, label, outV, inV) ==
    CASE label = "attach" ->
            [s EXCEPT !.inAttach[outV] = inV,
                      !.outAttach[inV] = outV]
      [] label = "next" ->
            [s EXCEPT !.inNext[inV] = Append(@, outV)]
      [] label = "packageInformation" ->
            [s EXCEPT !.inPackageInformation[inV] = Append(@, outV)]
      [] OTHER -> s

\* JsonStoreEnhanced.doProcessEdgeEnhanced, the switch on the label.
enhancedIndices(s, label, outV, inV) ==
    CASE label = "attach" ->
            [s EXCEPT !.inAttach[inV] = outV,
                      !.outAttach[outV] = inV]
      [] label = "next" ->
            [s EXCEPT !.inNext[inV] = Append(@, outV)]
      [] label = "packageInformation" ->
            [s EXCEPT !.inPackageInformation[inV] = Append(@, outV)]
      [] OTHER -> s

\* doProcessEdgeEnhanced as a whole: <<store after, error>>.
doProcessEdgeEnhanced(s, label, outV, inV) ==
    LET err == edgeLookupError(s, outV, inV)
    IN  IF err # <<>>
        THEN <<s, err>>
        ELSE <<enhancedIndices(superDoProcessEdge(s, label, outV, inV),
                               label, outV, inV), <<>>>>

NoCall == [op |-> "none"]

\* A JavaScript Map: a function whose domain is the set of keys set so far.
EmptyMap == [k \in {} |-> k]
MapHas(m, k) == k \in DOMAIN m
MapSet(m, k, v) == [x \in DOMAIN m \cup {k} |-> IF x = k THEN v ELSE m[x]]

\* The builder's state as the script declares it: an empty ModelIndex, an
\* empty elementDefinitionRanges and resultSetIdsProcessed, nothing written.
EmptyModel == [elements |-> <<>>, relations |-> <<>>]
NoCursor == [pass |-> "none"]

InitBuilder ==
    /\ model = EmptyModel
    /\ elementDefinitionRanges = <<>>
    /\ resultSetIdsProcessed = {}
    /\ stdout = <<>>
    /\ cursor = NoCursor

\* The four maps of the script, as it declares them.
EmptyPackageMaps ==
    [packageRootMap    |-> EmptyMap,
     packageBaseMap    |-> EmptyMap,
     packageProjectMap |-> EmptyMap,
     projectPackageMap |-> EmptyMap]

(***************************************************************************)
(* Ingestion actions shared by the specifications.                         *)
(***************************************************************************)
\* Vertices arrive in the producer's emission order, which is id order.
NextVertexId(s) ==
    IF \E i \in Ids : s.all[i] = NoVertex
    THEN CHOOSE i \in Ids : s.all[i] = NoVertex
                            /\ \A j \in Ids : j < i => s.all[j] # NoVertex
    ELSE None

InsertVertex(id, v) ==
    /\ phase = "load"
    /\ id = NextVertexId(store)
    /\ store' = processVertex(store, id, v)
    /\ UNCHANGED <<phase, edges, call, script>>

\* JsonStore.processEdge for one edge; an error ends the load.
InsertEdge(label, outV, inV) ==
    /\ phase = "load"
    /\ nEdges < MaxEdges
    /\ LET r == doProcessEdgeEnhanced(store, label, outV, inV)
       IN  /\ store' = r[1]
           /\ phase' = IF r[2] # <<>> THEN "aborted" ELSE phase
           /\ call' = [op |-> "insert", label |-> label, outV |-> outV,
                       inV |-> inV, error |-> r[2]]
    /\ edges' = Append(edges, <<label, outV, inV>>)
    /\ UNCHANGED script

\* `await inputStore.load(...)` returns: the consumers begin querying.
FinishLoad ==
    /\ phase = "load"
    /\ phase' = "query"
    /\ call' = NoCall
    /\ UNCHANGED <<store, edges, script>>

InitStore ==
    /\ store = EmptyStore
    /\ phase = "load"
    /\ edges = <<>>
    /\ call = NoCall
    /\ argv = [scopes |-> FALSE]
    /\ packageMaps = EmptyPackageMaps
    /\ named = EmptyMap
    /\ InitBuilder

(***************************************************************************)
(* Range locator.                                                          *)
(***************************************************************************)
\* The filter of findFullRangesFromPosition on one contained vertex.
IsDefinitionOrDeclaration(item) ==
    /\ item.label = "range"
    /\ item.tagType \in {"definition", "declaration"}

Qualifies(item, position) ==
    /\ IsDefinitionOrDeclaration(item)
    /\ item.text # ""
    /\ containsPosition(item.fullRange, position)

\* Whether the candidate gives way to the item: the test of the else-if.
replacesCandidate(candidate, item) ==
    containsRange(Rng(candidate.start, candidate.end), item.fullRange)

\* The inner loop over one document's contained vertices, from index i
\* with the current candidate (an id, or None).
RECURSIVE scanContains(_, _, _, _, _)
scanContains(s, contains, position, i, candidate) ==
    IF i > Len(contains) THEN candidate
    ELSE LET item == s.all[contains[i]]
         IN  IF ~Qualifies(item, position)
             THEN scanContains(s, contains, position, i + 1, candidate)
             ELSE IF candidate = None
             THEN scanContains(s, contains, position, i + 1, contains[i])
             ELSE IF replacesCandidate(s.all[candidate], item)
             THEN scanContains(s, contains, position, i + 1, contains[i])
             ELSE scanContains(s, contains, position, i + 1, candidate)

\* The outer loop over the documents registered for the uri.
RECURSIVE scanDocuments(_, _, _, _, _)
scanDocuments(s, docs, position, i, result) ==
    IF i > Len(docs)
    THEN (IF Len(result) > 0 THEN result ELSE Undefined)
    ELSE LET contains == s.outContains[docs[i]]
         IN  IF Len(contains) = 0
             THEN Undefined
             ELSE LET candidate == scanContains(s, contains, position, 1, None)
                  IN  scanDocuments(s, docs, position, i + 1,
                                    IF candidate # None
                                    THEN Append(result, candidate)
                                    ELSE result)

findFullRangesFromPosition(s, file, position) ==
    IF file \notin DOMAIN s.documents \/ s.documents[file] = <<>>
    THEN Undefined
    ELSE scanDocuments(s, s.documents[file], position, 1, <<>>)

\* The shapes a range vertex of the inputs takes: the span of the symbol's
\* name (start, end) and the span of the whole declaration (fullRange).
\* The name always lies inside the declaration.
Shape(s, e, fs, fe) == [start |-> s, end |-> e, fullRange |-> Rng(fs, fe)]
OuterShape == Shape(Pos(0, 0), Pos(0, 1), Pos(0, 0), Pos(MaxLine, MaxChar))
InnerShape == Shape(Pos(1, 0), Pos(1, 0), Pos(0, 1), Pos(1, 0))
LeafShape  == Shape(Pos(1, 0), Pos(1, 0), Pos(1, 0), Pos(1, 0))
NameShape  == Shape(Pos(0, 0), Pos(0, 0), Pos(0, 0), Pos(0, 0))
Shapes == {OuterShape, InnerShape, LeafShape, NameShape}

RangeVertex(shape, tagType, text) ==
    [label |-> "range", start |-> shape.start, end |-> shape.end,
     tagType |-> tagType, text |-> text, fullRange |-> shape.fullRange]

DocumentVertex(uri) == [label |-> "document", uri |-> uri]

\* The vertices of the range locator's inputs: two documents of one uri,
\* then three ranges.
RangeInputVertices(id) ==
    CASE id \in {1, 2} -> {DocumentVertex("u")}
      [] id = 3 -> {RangeVertex(OuterShape, "definition", "f")}
      [] id = 4 -> {RangeVertex(sh, t, "g") :
                        sh \in Shapes, t \in {"definition", "declaration"}}
      [] OTHER  -> {RangeVertex(sh, "definition", "h") : sh \in Shapes}
                   \cup {RangeVertex(OuterShape, "definition", ""),
                         RangeVertex(InnerShape, "reference", "h"),
                         RangeVertex(InnerShape, "none", "h")}

InsertRangeInputVertex ==
    \E id \in Ids : \E v \in RangeInputVertices(id) : InsertVertex(id, v)

\* A contains edge document -> range; a range belongs to one document.
InsertContains ==
    \E d \in {1, 2} : \E r \in {3, 4, 5} :
        /\ store.inContains[r] = None
        /\ InsertEdge("contains", d, r)

FindFullRanges ==
    \E file \in Uris : \E position \in Positions :
        /\ phase = "query"
        /\ call' = [op |-> "findFullRangesFromPosition", file |-> file,
                    position |-> position,
                    result |-> findFullRangesFromPosition(store, file, position)]
        /\ UNCHANGED <<store, phase, edges, script>>

NextRange ==
    \/ InsertRangeInputVertex
    \/ InsertContains
    \/ FinishLoad
    \/ FindFullRanges

SpecRange == InitStore /\ [][NextRange]_vars

(***************************************************************************)
(* Claims about the range locator.                                         *)
(***************************************************************************)
FoundRanges == call.op = "findFullRangesFromPosition"

\* The ranges of document d that qualify at the position of the call.
QualifyingIn(d, position) ==
    {r \in Ids : /\ \E k \in 1..Len(store.outContains[d]) :
                        store.outContains[d][k] = r
                 /\ Qualifies(store.all[r], position)}

RegisteredDocs(file) ==
    {store.documents[file][k] : k \in 1..Len(store.documents[file])}

StrictlyInside(inner, outer) ==
    /\ PosLE(outer.start, inner.start)
    /\ PosLE(inner.end, outer.end)
    /\ inner # outer

\* C1: every range findFullRangesFromPosition returns is an innermost
\* qualifying range of its document: no other qualifying range of that
\* document has a fullRange strictly inside the returned range's fullRange.
C1_ReturnsInnermost ==
    (FoundRanges /\ call.result # Undefined) =>
        \A k \in 1..Len(call.result) :
            LET r == call.result[k]
                d == store.inContains[r]
            IN  \A q \in QualifyingIn(d, call.position) :
                    ~StrictlyInside(store.all[q].fullRange,
                                    store.all[r].fullRange)

\* C2: findFullRangesFromPosition returns undefined exactly when no
\* document registered for the uri contains a qualifying range.
C2_UndefinedIffNoQualifying ==
    FoundRanges =>
        ((call.result = Undefined) <=>
            \A d \in RegisteredDocs(call.file) :
                QualifyingIn(d, call.position) = {})

(***************************************************************************)
(* Moniker resolver.  getAlternateMonikers runs loop iteration by loop     *)
(* iteration: `call` holds its local variables while call.pc # "done".     *)
(***************************************************************************)
MonikerVertex(scheme, identifier, unique) ==
    [label |-> "moniker", scheme |-> scheme, identifier |-> identifier,
     unique |-> unique]

ResultSetVertex == [label |-> "resultSet"]

\* monikerUniqueShortForms.get(unique) ?? -1
uniqueRank(unique) ==
    CASE unique = "document" -> 0
      [] unique = "project"  -> 1
      [] unique = "group"    -> 2
      [] unique = "scheme"   -> 3
      [] unique = "global"   -> 4
      [] OTHER               -> 0 - 1

rankOf(s, m) == uniqueRank(s.all[m].unique)

\* A variant of the callback that keeps the accumulator on equal ranks.
moreUniqueKeepFirst(s, a, b) == IF rankOf(s, a) >= rankOf(s, b) THEN a ELSE b

\* The callback of the reduce in getMostUniqueMoniker.
moreUnique(s, a, b) == IF rankOf(s, a) > rankOf(s, b) THEN a ELSE b

\* Array.prototype.reduce without an initial value, on a non-empty array.
RECURSIVE reduceFrom(_, _, _, _)
reduceFrom(s, arr, i, acc) ==
    IF i > Len(arr) THEN acc
    ELSE reduceFrom(s, arr, i + 1, moreUnique(s, acc, arr[i]))

\* getMostUniqueMoniker, given the array getAlternateMonikers returned.
mostUniqueOf(s, moniker, alternateMonikers) ==
    IF Len(alternateMonikers) = 0
    THEN moniker
    ELSE reduceFrom(s, alternateMonikers, 2, alternateMonikers[1])

\* results.push(m); the model records the first MaxResults entries.
push(results, m) ==
    IF Len(results) < MaxResults THEN Append(results, m) ELSE results

\* (in.next.get(id) ?? []).filter(resultSetFilter)
nextResultSetsOf(s, id) ==
    SelectSeq(s.inNext[id], LAMBDA v : s.all[v].label = "resultSet")

IsTraversal(c) == c.op \in {"getAlternateMonikers", "getMostUniqueMoniker"}
Running(c) == IsTraversal(c) /\ c.pc # "done"
Done(c) == IsTraversal(c) /\ c.pc = "done"

\* A call of getAlternateMonikers(moniker) or getMostUniqueMoniker(moniker)
\* begins: results = [], followAttachEdges(moniker, results) is entered.
BeginTraversal(op, m) ==
    /\ phase = "query"
    /\ ~Running(call)
    /\ store.all[m].label = "moniker"
    /\ call' = [op |-> op, arg |-> m,
                chained |-> (/\ op = "getMostUniqueMoniker"
                             /\ call.op = "getMostUniqueMoniker"
                             /\ call.result = m),
                pc |-> "attach", ret |-> "init", cur |-> m,
                results |-> <<>>, rsLeft |-> <<>>, work |-> <<>>,
                rs |-> None, result |-> None]
    /\ UNCHANGED <<store, phase, edges, script>>

CallGetAlternateMonikers ==
    \E m \in Ids : BeginTraversal("getAlternateMonikers", m)

CallGetMostUniqueMoniker ==
    \E m \in Ids : BeginTraversal("getMostUniqueMoniker", m)

\* One iteration of the while loop of followAttachEdges, or its exit.
StepFollowAttachEdges ==
    /\ Running(call) /\ call.pc = "attach"
    /\ LET nextMoniker == store.inAttach[call.cur]
       IN  IF nextMoniker # None
           THEN call' = [call EXCEPT !.cur = nextMoniker,
                                     !.results = push(@, nextMoniker)]
           ELSE IF call.ret = "init"
           THEN call' = [call EXCEPT !.pc = "forEach",
                                     !.rsLeft = store.inMoniker[call.arg]]
           ELSE call' = [call EXCEPT
                            !.pc = "while",
                            !.work = @ \o nextResultSetsOf(store, call.rs)]
    /\ UNCHANGED <<store, phase, edges, script>>

\* resultSets?.forEach: the next result set, or the return of the call.
\* getAlternateMonikers returns call.results; getMostUniqueMoniker returns
\* call.result.
StepForEachResultSet ==
    /\ Running(call) /\ call.pc = "forEach"
    /\ IF call.rsLeft = <<>>
       THEN call' = [call EXCEPT
                        !.pc = "done",
                        !.result =
                            IF call.op = "getAlternateMonikers"
                            THEN None
                            ELSE mostUniqueOf(store, call.arg, call.results)]
       ELSE call' = [call EXCEPT
                        !.pc = "while",
                        !.rsLeft = Tail(@),
                        !.work = nextResultSetsOf(store, Head(call.rsLeft))]
    /\ UNCHANGED <<store, phase, edges, script>>

\* One iteration of while (nextResultSets.length > 0), or its exit.
StepWhileNextResultSets ==
    /\ Running(call) /\ call.pc = "while"
    /\ IF call.work = <<>>
       THEN call' = [call EXCEPT !.pc = "forEach"]
       ELSE LET nextResultSet == call.work[Len(call.work)]
                popped == SubSeq(call.work, 1, Len(call.work) - 1)
                moniker == store.outMoniker[nextResultSet]
            IN  IF store.all[nextResultSet].label # "resultSet"
                THEN call' = [call EXCEPT !.work = popped]
                ELSE IF moniker # None
                THEN call' = [call EXCEPT !.work = popped,
                                          !.results = push(@, moniker),
                                          !.cur = moniker,
                                          !.rs = nextResultSet,
                                          !.pc = "attach",
                                          !.ret = "while"]
                ELSE call' = [call EXCEPT
                                !.work = popped \o
                                    nextResultSetsOf(store, nextResultSet)]
    /\ UNCHANGED <<store, phase, edges, script>>

TraversalStep ==
    \/ StepFollowAttachEdges
    \/ StepForEachResultSet
    \/ StepWhileNextResultSets

\* The vertices of the moniker resolver's inputs: three monikers, then two
\* result sets.
MonikerIds == {1, 2, 3}
ResultSetIds == {4, 5}

MonikerInputVertices(id) ==
    CASE id = 1 -> {MonikerVertex("tsc", <<"a">>, "scheme")}
      [] id = 2 -> {MonikerVertex("tsc", <<"b">>, "document")}
      [] id = 3 -> {MonikerVertex("tsc", <<"c">>, u) :
                        u \in {"document", "scheme"}}
      [] OTHER  -> {ResultSetVertex}

InsertMonikerInputVertex ==
    \E id \in Ids : \E v \in MonikerInputVertices(id) : InsertVertex(id, v)

InsertAttach ==
    \E a \in MonikerIds : \E b \in MonikerIds \ {a} : InsertEdge("attach", a, b)

\* A result set carries one moniker.
InsertMonikerEdge ==
    \E r \in ResultSetIds : \E m \in MonikerIds :
        /\ store.outMoniker[r] = None
        /\ InsertEdge("moniker", r, m)

InsertNext ==
    \E a \in ResultSetIds : \E b \in ResultSetIds \ {a} :
        InsertEdge("next", a, b)

NextMoniker ==
    \/ InsertMonikerInputVertex
    \/ InsertAttach
    \/ InsertMonikerEdge
    \/ InsertNext
    \/ FinishLoad
    \/ CallGetAlternateMonikers
    \/ CallGetMostUniqueMoniker
    \/ TraversalStep

SpecMoniker == InitStore /\ [][NextMoniker]_vars

\* The JavaScript loop of a call in progress keeps running.
FairSpecMoniker == SpecMoniker /\ WF_vars(TraversalStep)

(***************************************************************************)
(* Claims about the moniker resolver.                                      *)
(***************************************************************************)
ReturnedMostUnique == Done(call) /\ call.op = "getMostUniqueMoniker"
ReturnedAlternates == Done(call) /\ call.op = "getAlternateMonikers"

SeqToSet(q) == {q[k] : k \in 1..Len(q)}

MaxRankOf(ms) == CHOOSE r \in {rankOf(store, m) : m \in ms} :
                    \A m \in ms : rankOf(store, m) <= r

\* C3: getMostUniqueMoniker(m) returns a moniker of {m} \cup
\* getAlternateMonikers(m) whose rank is the maximum of that set.
C3_ReturnsMaximumOfCandidates ==
    ReturnedMostUnique =>
        LET candidates == {call.arg} \cup SeqToSet(call.results)
        IN  /\ call.result \in candidates
            /\ rankOf(store, call.result) = MaxRankOf(candidates)

\* C4: getMostUniqueMoniker applied to its own result returns that result.
C4_Idempotent ==
    (ReturnedMostUnique /\ call.chained) => call.result = call.arg

\* The first and the last index of q whose moniker has the highest rank
\* of q.
FirstMaxIndex(q) ==
    CHOOSE k \in 1..Len(q) :
        /\ rankOf(store, q[k]) = MaxRankOf(SeqToSet(q))
        /\ \A j \in 1..(k - 1) : rankOf(store, q[j]) < rankOf(store, q[k])

LastMaxIndex(q) ==
    CHOOSE k \in 1..Len(q) :
        /\ rankOf(store, q[k]) = MaxRankOf(SeqToSet(q))
        /\ \A j \in (k + 1)..Len(q) : rankOf(store, q[j]) < rankOf(store, q[k])

TiedAtTop(q) ==
    \E j, k \in 1..Len(q) :
        /\ q[j] # q[k]
        /\ rankOf(store, q[j]) = MaxRankOf(SeqToSet(q))
        /\ rankOf(store, q[k]) = MaxRankOf(SeqToSet(q))

\* C5 as stated: when several candidates (the array the reduce runs over)
\* share the highest rank, the one seen first is returned.
C5_TiesFirstSeen ==
    (ReturnedMostUnique /\ TiedAtTop(call.results)) =>
        call.result = call.results[FirstMaxIndex(call.results)]

\* C5 as amended: when the alternates are not empty the result is the
\* alternate of highest rank seen last in the order of
\* getAlternateMonikers; ties are broken by last-seen order.
C5_TiesLastSeenAlternate ==
    (ReturnedMostUnique /\ call.results # <<>>) =>
        call.result = call.results[LastMaxIndex(call.results)]

C5_Witness ==
    /\ ReturnedMostUnique
    /\ TiedAtTop(call.results)
    /\ call.result # call.results[FirstMaxIndex(call.results)]

\* The store after the attach chain m3 -> m2 -> m1 and no other edge:
\* the edges attach(outV 3, inV 2) and attach(outV 2, inV 1).
AttachChainStore ==
    \/ edges = << <<"attach", 3, 2>>, <<"attach", 2, 1>> >>
    \/ edges = << <<"attach", 2, 1>>, <<"attach", 3, 2>> >>

\* C6 as stated: after the chain, getAlternateMonikers(m3) = [m2, m1].
C6_ChainFromM3 ==
    (ReturnedAlternates /\ AttachChainStore /\ call.arg = 3) =>
        call.results = <<2, 1>>

\* C6 as amended: after the chain, getAlternateMonikers(m1) = [m2, m3] and
\* getAlternateMonikers(m3) = []: the chain is walked from the inV end.
C6_ChainFromM1 ==
    (ReturnedAlternates /\ AttachChainStore) =>
        /\ call.arg = 1 => call.results = <<2, 3>>
        /\ call.arg = 3 => call.results = <<>>

C6_Witness ==
    /\ ReturnedAlternates /\ AttachChainStore
    /\ call.arg = 1 /\ call.results = <<2, 3>>

\* C7: every call of getAlternateMonikers (alone or within
\* getMostUniqueMoniker) returns.
C7_TraversalTerminates == [](Running(call) => <>Done(call))

(***************************************************************************)
(* Ingestion of every edge label.                                          *)
(***************************************************************************)
\* The vertices of the input: a document, a range, a result set, a moniker
\* and one more vertex of any of the remaining labels.
IngestInputVertices(id) ==
    CASE id = 1 -> {DocumentVertex("u")}
      [] id = 2 -> {RangeVertex(OuterShape, "definition", "f")}
      [] id = 3 -> {ResultSetVertex}
      [] id = 4 -> {MonikerVertex("tsc", <<"a">>, "document")}
      [] OTHER  -> {MonikerVertex("npm", <<"a">>, "scheme"),
                    [label |-> "packageInformation"],
                    [label |-> "hoverResult"],
                    [label |-> "referenceResult"]}

\* The endpoints an edge of each label joins in the input.
EdgeEnds(label) ==
    CASE label = "contains" -> <<1, 2>>
      [] label = "next" -> <<2, 3>>
      [] label = "moniker" -> <<3, 4>>
      [] label = "attach" -> <<5, 4>>
      [] label = "packageInformation" -> <<4, 5>>
      [] label = "item" -> <<5, 2>>
      [] OTHER -> <<3, 5>>

InsertIngestInputVertex ==
    \E id \in Ids : \E v \in IngestInputVertices(id) : InsertVertex(id, v)

\* An edge of any label, each endpoint the vertex meant or an id no vertex
\* carries; the vertex meant may not have arrived yet.
InsertAnyEdge ==
    \E label \in EdgeLabels :
        \E outV \in {EdgeEnds(label)[1], UnknownId} :
            \E inV \in {EdgeEnds(label)[2], UnknownId} :
                /\ nEdges < MaxIngestEdges
                /\ InsertEdge(label, outV, inV)

NextIngest ==
    \/ InsertIngestInputVertex
    \/ InsertAnyEdge
    \/ FinishLoad

SpecIngest == InitStore /\ [][NextIngest]_vars

InsertedEdge == call.op = "insert"

\* C8: ingesting an edge whose outV or inV has no vertex ingested before
\* fails with an error, whatever the edge's label; the load is aborted.
C8_UnknownEndpointFails ==
    \A label \in EdgeLabels :
        (/\ InsertedEdge
         /\ call.label = label
         /\ (~HasVertex(store, call.outV) \/ ~HasVertex(store, call.inV))) =>
            /\ call.error # <<>>
            /\ phase = "aborted"

C8_Witness ==
    /\ InsertedEdge
    /\ call.label = "item"
    /\ HasVertex(store, call.outV)
    /\ ~HasVertex(store, call.inV)
    /\ call.error = <<"No vertex found for Id", call.inV>>
    /\ phase = "aborted"

(***************************************************************************)
(* Strings of the naming synthesizer: sequences of characters, with the    *)
(* String and RegExp operations the script applies to them.                *)
(***************************************************************************)
LowerCase ==
    <<"a", "b", "c", "d", "e", "f", "g", "h", "i", "j", "k", "l", "m",
      "n", "o", "p", "q", "r", "s", "t", "u", "v", "w", "x", "y", "z">>
UpperCase ==
    <<"A", "B", "C", "D", "E", "F", "G", "H", "I", "J", "K", "L", "M",
      "N", "O", "P", "Q", "R", "S", "T", "U", "V", "W", "X", "Y", "Z">>
Digits == {"0", "1", "2", "3", "4", "5", "6", "7", "8", "9"}
Letters == 1..Len(LowerCase)

\* The class \w of a regular expression.
WordChars ==
    {LowerCase[i] : i \in Letters} \cup {UpperCase[i] : i \in Letters}
        \cup Digits \cup {"_"}

toUpperCase(c) ==
    IF \E i \in Letters : LowerCase[i] = c
    THEN UpperCase[CHOOSE i \in Letters : LowerCase[i] = c]
    ELSE c

toLowerCase(c) ==
    IF \E i \in Letters : UpperCase[i] = c
    THEN LowerCase[CHOOSE i \in Letters : UpperCase[i] = c]
    ELSE c

lowerAll(s) == [i \in 1..Len(s) |-> toLowerCase(s[i])]

startsWith(s, p) == Len(p) <= Len(s) /\ SubSeq(s, 1, Len(p)) = p
endsWith(s, p) ==
    Len(p) <= Len(s) /\ SubSeq(s, Len(s) - Len(p) + 1, Len(s)) = p
\* s.substring(n)
substring(s, n) == SubSeq(s, n + 1, Len(s))

\* The 1-based index of the first occurrence of p in s, or 0.
indexOf(s, p) ==
    LET At == {k \in 1..(Len(s) - Len(p) + 1) :
                    SubSeq(s, k, k + Len(p) - 1) = p}
    IN  IF At = {} THEN 0
        ELSE CHOOSE k \in At : \A j \in At : k <= j

\* s.replace(p, r) with a string pattern: the first occurrence only.
replaceString(s, p, r) ==
    LET k == indexOf(s, p)
    IN  IF k = 0 THEN s
        ELSE SubSeq(s, 1, k - 1) \o r \o SubSeq(s, k + Len(p), Len(s))

\* s.replace(/[cs]/g, r): every character of the class.
RECURSIVE replaceChars(_, _, _)
replaceChars(s, cs, r) ==
    IF s = <<>> THEN <<>>
    ELSE (IF Head(s) \in cs THEN r ELSE <<Head(s)>>)
            \o replaceChars(Tail(s), cs, r)

\* s.split(c)
RECURSIVE split(_, _)
split(s, c) ==
    LET k == indexOf(s, <<c>>)
    IN  IF k = 0 THEN <<s>>
        ELSE <<SubSeq(s, 1, k - 1)>> \o split(substring(s, k), c)

\* parts.join(sep)
RECURSIVE join(_, _)
join(parts, sep) ==
    IF parts = <<>> THEN <<>>
    ELSE IF Len(parts) = 1 THEN parts[1]
    ELSE parts[1] \o sep \o join(Tail(parts), sep)

\* Whether /\.(?=[jt]sx?:)/ matches at index i.
extensionDotAt(s, i) ==
    /\ s[i] = "."
    /\ i + 2 <= Len(s)
    /\ s[i + 1] \in {"j", "t"}
    /\ s[i + 2] = "s"
    /\ \/ (i + 3 <= Len(s) /\ s[i + 3] = ":")
       \/ (i + 4 <= Len(s) /\ s[i + 3] = "x" /\ s[i + 4] = ":")

\* stripExtensions of monikerToFqn: the dot of the first .js/.ts/.jsx/.tsx
\* extension that a colon follows becomes "_", every other dot "_dot_".
stripExtensions(identifier) ==
    LET At == {i \in 1..Len(identifier) : extensionDotAt(identifier, i)}
        first == IF At = {} THEN identifier
                 ELSE [identifier EXCEPT
                          ![CHOOSE i \in At : \A j \in At : i <= j] = "_"]
    IN  replaceChars(first, {"."}, <<"_", "d", "o", "t", "_">>)

\* .replace(/(?<=^[\w@/\\-]+):/, "_pkg."): the first colon, when a non-empty
\* run of word characters, "@", "/", "\" and "-" leads up to it.
replacePackageColon(s) ==
    LET k == indexOf(s, <<":">>)
    IN  IF /\ k > 1
           /\ \A i \in 1..(k - 1) : s[i] \in WordChars \cup {"@", "/", "\\", "-"}
        THEN SubSeq(s, 1, k - 1) \o <<"_", "p", "k", "g", ".">>
                \o substring(s, k)
        ELSE s

\* The length of the match of (?:Dir|_dir|\/|\\) at index i, or 0.
folderMatchLen(s, i) ==
    IF i + 2 <= Len(s) /\ SubSeq(s, i, i + 2) = <<"D", "i", "r">> THEN 3
    ELSE IF i + 3 <= Len(s) /\ SubSeq(s, i, i + 3) = <<"_", "d", "i", "r">>
    THEN 4
    ELSE IF s[i] \in {"/", "\\"} THEN 1
    ELSE 0

\* Whether folderRegex matches at index i: a folder mark at the end of the
\* string or with a colon somewhere after it.
folderRegexAt(s, i) ==
    LET n == folderMatchLen(s, i)
    IN  /\ n > 0
        /\ \/ i + n > Len(s)
           \/ \E j \in (i + n)..Len(s) : s[j] = ":"

\* identifier.replace(folderRegex, "_dir."), from index i on.
RECURSIVE replaceFolderRegex(_, _)
replaceFolderRegex(s, i) ==
    IF i > Len(s) THEN <<>>
    ELSE IF folderRegexAt(s, i)
    THEN <<"_", "d", "i", "r", ".">>
            \o replaceFolderRegex(s, i + folderMatchLen(s, i))
    ELSE <<s[i]>> \o replaceFolderRegex(s, i + 1)

\* inflection.camelize, one "_"-separated piece: pieces after the first are
\* lower-cased; the first character is upper-cased, or lower-cased for the
\* very first piece when low_first_letter is set.
camelizePiece(piece, lowFirst, lowerRest) ==
    LET p == IF lowerRest THEN lowerAll(piece) ELSE piece
    IN  IF p = <<>> THEN <<>>
        ELSE <<IF lowFirst THEN toLowerCase(p[1]) ELSE toUpperCase(p[1])>>
                \o Tail(p)

\* inflection.camelize(str, low_first_letter)
camelize(str, low_first_letter) ==
    LET str_path == split(str, "/")
        pieceOf(i, k) ==
            camelizePiece(split(str_path[i], "_")[k],
                          low_first_letter /\ i = 1 /\ k = 1, k # 1)
        segment(i) ==
            join([k \in 1..Len(split(str_path[i], "_")) |-> pieceOf(i, k)],
                 <<>>)
    IN  join([i \in 1..Len(str_path) |-> segment(i)], <<":", ":">>)

\* .replace(/:+/g, "_")
RECURSIVE replaceColonRuns(_)
replaceColonRuns(s) ==
    IF s = <<>> THEN <<>>
    ELSE IF Head(s) # ":" THEN <<Head(s)>> \o replaceColonRuns(Tail(s))
    ELSE IF Len(s) > 1 /\ s[2] = ":" THEN replaceColonRuns(Tail(s))
    ELSE <<"_">> \o replaceColonRuns(Tail(s))

\* .replace(/^(\d)/, "_$1")
escapeLeadingDigit(s) ==
    IF s # <<>> /\ s[1] \in Digits THEN <<"_">> \o s ELSE s

\* The last step of monikerToFqn on a non-empty identifier.
sanitize(identifier) ==
    escapeLeadingDigit(
        replaceChars(replaceColonRuns(camelize(identifier, TRUE)),
                     {"=", "+"}, <<"_">>))

(***************************************************************************)
(* The containers of a moniker.                                            *)
(***************************************************************************)
\* JsonStore.findVerticesForMoniker: the vertices with a moniker edge to
\* the moniker; <<>> stands for undefined.
findVerticesForMoniker(s, m) == s.inMoniker[m]

\* followAttachEdgesReversed, entered with vertices undefined: the first
\* moniker along the outgoing attach edges that has vertices.
RECURSIVE followAttachEdgesReversedFrom(_, _)
followAttachEdgesReversedFrom(s, prevMoniker) ==
    IF prevMoniker = None THEN <<>>
    ELSE IF findVerticesForMoniker(s, prevMoniker) # <<>>
    THEN findVerticesForMoniker(s, prevMoniker)
    ELSE followAttachEdgesReversedFrom(s, s.outAttach[prevMoniker])

followAttachEdgesReversed(s, m) ==
    followAttachEdgesReversedFrom(s, s.outAttach[m])

\* JsonStore.getResultPath(start, inEnhanced.next).result.value: the
\* incoming next edges of the first vertex, along the outgoing next edges
\* from start, that has any.
RECURSIVE getResultPath(_, _)
getResultPath(s, id) ==
    IF s.inNext[id] # <<>> THEN s.inNext[id]
    ELSE IF s.outNext[id] = None THEN <<>>
    ELSE getResultPath(s, s.outNext[id])

IsRange(s, id) == s.all[id].label = "range"
filterRanges(s, ids) == SelectSeq(ids, LAMBDA id : IsRange(s, id))

RECURSIVE flatMapRanges(_, _)
flatMapRanges(s, vertices) ==
    IF vertices = <<>> THEN <<>>
    ELSE filterRanges(s, getResultPath(s, Head(vertices)))
            \o flatMapRanges(s, Tail(vertices))

getRangesForMoniker(s, m) ==
    LET found == findVerticesForMoniker(s, m)
        vertices == IF found = <<>> THEN followAttachEdgesReversed(s, m)
                    ELSE found
    IN  flatMapRanges(s, vertices)

getDocumentFromRange(s, r) ==
    LET candidate == s.inContains[r]
    IN  IF candidate # None /\ s.all[candidate].label = "document"
        THEN candidate ELSE None

\* The forEach of getContainersForMoniker: each range overwrites range and
\* document, and the project when the range has a document.
RECURSIVE containersOver(_, _, _)
containersOver(s, ranges, containers) ==
    IF ranges = <<>> THEN containers
    ELSE LET document == getDocumentFromRange(s, Head(ranges))
         IN  containersOver(s, Tail(ranges),
                [range    |-> Head(ranges),
                 document |-> document,
                 project  |-> IF document # None
                              THEN s.inContains[document]
                              ELSE containers.project])

getContainersForMoniker(s, m) ==
    containersOver(s, getRangesForMoniker(s, m),
                   [range |-> None, document |-> None, project |-> None])

\* getContainersForMoniker returns undefined: neither the moniker nor a
\* moniker along its outgoing attach edges has vertices.
containersUndefined(s, m) ==
    /\ findVerticesForMoniker(s, m) = <<>>
    /\ followAttachEdgesReversed(s, m) = <<>>

\* The errors thrown while naming; NoError stands for a normal return.
NoError == ""
NoContainers == "No containers found for moniker"

(***************************************************************************)
(* Uris.  Every uri of the inputs is a file uri of one host, so that       *)
(* protocol and host of two of them are always equal.                      *)
(***************************************************************************)
FileScheme == <<"f", "i", "l", "e", ":", "/", "/">>
\* JsonStore.getWorkspaceRoot().href: no trailing slash.
WorkspaceRoot == FileScheme \o <<"/", "r">>

\* new URL(uri).pathname
pathname(uri) == substring(uri, Len(FileScheme))

IsNonEmpty(x) == x # <<>>
\* The segments of an absolute path.
segments(path) == SelectSeq(split(path, "/"), IsNonEmpty)

\* path.relative(from, to) of two absolute posix paths.
pathRelative(from, to) ==
    LET f == segments(from)
        t == segments(to)
        Common == {n \in 0..Len(f) : n <= Len(t) /\ SubSeq(f, 1, n) = SubSeq(t, 1, n)}
        n == CHOOSE x \in Common : \A y \in Common : y <= x
    IN  join([i \in 1..(Len(f) - n) |-> <<".", ".">>]
                \o SubSeq(t, n + 1, Len(t)), <<"/">>)

\* getRelativeUrl(uri, workspaceRoot), workspaceRoot given by its href.
getRelativeUrl(uri, workspaceRoot) ==
    IF startsWith(uri, workspaceRoot)
    THEN substring(uri, Len(workspaceRoot) + 1)
    ELSE IF startsWith(uri, FileScheme) /\ startsWith(workspaceRoot, FileScheme)
    THEN pathRelative(pathname(workspaceRoot), pathname(uri))
    ELSE uri

\* packageRootString.replace(/\/$/, "")
stripTrailingSlash(s) ==
    IF s # <<>> /\ s[Len(s)] = "/" THEN SubSeq(s, 1, Len(s) - 1) ELSE s

(***************************************************************************)
(* Package root inference and the naming function.                         *)
(***************************************************************************)
\* updatePackageMap(moniker): <<maps after, isRootFound>>.  The identifier
\* of an npm moniker of the inputs holds a colon, so pathName is defined.
updatePackageMap(s, maps, m) ==
    LET parts == split(s.all[m].identifier, ":")
        packageName == parts[1]
        pathName == parts[2]
        containers == getContainersForMoniker(s, m)
    IN  IF containers.document = None THEN <<maps, FALSE>>
        ELSE
        LET uri == s.all[containers.document].uri
            pathSegments == split(pathName, "/")
            sourcePathName == join(Tail(pathSegments), <<"/">>)
            bySource == Len(sourcePathName) > 1 /\ endsWith(uri, sourcePathName)
            byPath == Len(pathName) > 1 /\ endsWith(uri, pathName)
            packageRoot ==
                IF byPath THEN replaceString(uri, pathName, <<>>)
                ELSE IF bySource THEN replaceString(uri, sourcePathName, <<>>)
                ELSE <<>>
            maps1 == IF bySource
                     THEN [maps EXCEPT !.packageBaseMap =
                              MapSet(@, packageName, pathSegments[1] \o <<"/">>)]
                     ELSE maps
        IN  IF packageRoot = <<>> THEN <<maps1, FALSE>>
            ELSE
            LET maps2 == [maps1 EXCEPT !.packageRootMap =
                             MapSet(@, packageName, packageRoot)]
            IN  IF containers.project = None THEN <<maps2, TRUE>>
                ELSE
                LET name == s.all[containers.project].name
                IN  <<[maps2 EXCEPT
                         !.packageProjectMap = MapSet(@, packageName, name),
                         !.projectPackageMap = MapSet(@, name, packageName)],
                      TRUE>>

\* The prefix and the package root monikerToFqn derives from the project of
\* a moniker that is neither npm nor unique at scheme or global level:
\* <<prefix, root the document path is made relative to>>.
projectPrefix(s, maps, containers) ==
    IF containers.project = None \/ s.all[containers.project].name = <<>>
    THEN <<<<>>, WorkspaceRoot>>
    ELSE
    LET name == s.all[containers.project].name
    IN  IF ~MapHas(maps.projectPackageMap, name)
        THEN <<name \o <<"_", "p", "r", "o", "j", ".">>, WorkspaceRoot>>
        ELSE
        LET packageName == maps.projectPackageMap[name]
            pkgPrefix == replaceChars(packageName, {"@"}, <<"_", "a", "t", "_">>)
                            \o <<"_", "p", "k", "g", ".">>
        IN  IF ~MapHas(maps.packageRootMap, packageName)
            THEN <<pkgPrefix, WorkspaceRoot>>
            ELSE <<pkgPrefix \o (IF MapHas(maps.packageBaseMap, packageName)
                                 THEN maps.packageBaseMap[packageName]
                                 ELSE <<>>),
                   stripTrailingSlash(maps.packageRootMap[packageName])>>

\* monikerToFqn(moniker, scopes): [fqn, maps after, error thrown].
monikerToFqn(s, maps, m, scopes) ==
    LET moniker == s.all[m]
        stripped == stripExtensions(moniker.identifier)
        isNpm == moniker.scheme = "npm"
        packageName == split(moniker.identifier, ":")[1]
        maps1 == IF isNpm /\ ~MapHas(maps.packageRootMap, packageName)
                 THEN updatePackageMap(s, maps, m)[1]
                 ELSE maps
        containers == getContainersForMoniker(s, m)
        pp == projectPrefix(s, maps, containers)
        documentPath ==
            IF containers.document = None THEN <<>>
            ELSE getRelativeUrl(s.all[containers.document].uri, pp[2])
        identifier ==
            IF isNpm
            THEN replacePackageColon(
                    replaceChars(stripped, {"@"}, <<"_", "a", "t", "_">>))
            ELSE IF moniker.unique \notin {"scheme", "global"}
            THEN pp[1] \o stripExtensions(documentPath \o <<":">>) \o stripped
            ELSE stripped
        scoped == IF scopes THEN replaceFolderRegex(identifier, 1)
                  ELSE identifier
    IN  [fqn  |-> IF moniker.identifier # <<>> THEN sanitize(scoped)
                  ELSE <<"_", ToString(m)>>,
         maps |-> maps1,
         error |-> IF /\ ~isNpm
                      /\ moniker.unique \notin {"scheme", "global"}
                      /\ containersUndefined(s, m)
                   THEN NoContainers ELSE NoError]

\* Array.sort by identifier length (stable): insertion of m into a sorted
\* array of moniker ids.
RECURSIVE insertByLength(_, _, _)
insertByLength(s, sorted, m) ==
    IF sorted = <<>> THEN <<m>>
    ELSE IF Len(s.all[m].identifier) < Len(s.all[Head(sorted)].identifier)
    THEN <<m>> \o sorted
    ELSE <<Head(sorted)>> \o insertByLength(s, Tail(sorted), m)

RECURSIVE sortByIdentifierLength(_, _)
sortByIdentifierLength(s, monikers) ==
    IF monikers = <<>> THEN <<>>
    ELSE insertByLength(s,
            sortByIdentifierLength(s, SubSeq(monikers, 1, Len(monikers) - 1)),
            monikers[Len(monikers)])

\* JsonStoreEnhanced.getMonikersForPackage
getMonikersForPackage(s, pkg) == s.inPackageInformation[pkg]

\* The find of buildPackageMap over one package's monikers: the maps after
\* the first npm moniker for which updatePackageMap succeeds.
RECURSIVE findPackageRoot(_, _, _)
findPackageRoot(s, maps, monikers) ==
    IF monikers = <<>> THEN maps
    ELSE IF s.all[Head(monikers)].scheme # "npm"
    THEN findPackageRoot(s, maps, Tail(monikers))
    ELSE LET r == updatePackageMap(s, maps, Head(monikers))
         IN  IF r[2] THEN r[1]
             ELSE findPackageRoot(s, r[1], Tail(monikers))

\* JsonStoreEnhanced.getVerticesWithLabel, in id order.
RECURSIVE getVerticesWithLabel(_, _, _)
getVerticesWithLabel(s, label, id) ==
    IF id \notin DOMAIN s.all THEN <<>>
    ELSE (IF s.all[id].label = label THEN <<id>> ELSE <<>>)
            \o getVerticesWithLabel(s, label, id + 1)

RECURSIVE buildPackageMapOver(_, _, _)
buildPackageMapOver(s, maps, packages) ==
    IF packages = <<>> THEN maps
    ELSE buildPackageMapOver(s,
            findPackageRoot(s, maps,
                sortByIdentifierLength(s,
                    getMonikersForPackage(s, Head(packages)))),
            Tail(packages))

buildPackageMap(s, maps) ==
    buildPackageMapOver(s, maps,
                        getVerticesWithLabel(s, "packageInformation", 1))

(***************************************************************************)
(* The naming run: the store of one loaded input, buildPackageMap, then    *)
(* the naming of the symbols of the definition ranges, in any order and    *)
(* any number of times.                                                    *)
(***************************************************************************)
ProjectVertex(name) == [label |-> "project", name |-> name]
PackageInformationVertex == [label |-> "packageInformation"]

NamingIds == 1..14
UriLibA == WorkspaceRoot \o <<"/", "l", "i", "b", "/", "a", ".", "t", "s">>
UriLibB == WorkspaceRoot \o <<"/", "l", "i", "b", "/", "b", ".", "t", "s">>
UriSrcB == WorkspaceRoot \o <<"/", "s", "r", "c", "/", "b", ".", "t", "s">>
\* Documents below a folder that is named like a file.
UriBelowATs == WorkspaceRoot
    \o <<"/", "a", ".", "t", "s", "/", "l", "i", "b", "/", "a", ".", "t", "s">>
UriBelowLibATs == UriLibA \o <<"/", "l", "i", "b", "/", "a", ".", "t", "s">>
NamingUris == {UriLibA, UriLibB, UriSrcB, UriBelowATs, UriBelowLibATs}

\* The identifiers of the npm moniker: its path is the document's path,
\* the document's path behind a build-output prefix, or another path.
NpmIdentifiers ==
    {<<"k", ":", "l", "i", "b", "/", "a", ".", "t", "s", ":", "f">>,
     <<"k", ":", "z", "z", "/", "a", ".", "t", "s", ":", "f">>,
     <<"k", ":", "q", "/", "c", ".", "t", "s", ":", "f">>}
\* The identifiers of the two tsc monikers of the second document.
FirstLocalIdentifiers == {<<"b", ":", "g", "_", "h">>, <<"b", ":", "g", "h">>}
SecondLocalIdentifiers == {<<"b", ":", "g", "H">>, <<"b", ":", "g">>}
LocalUniqueness == {"document", "scheme"}

\* The inputs: one project with two documents; a range, a result set and a
\* tsc moniker for each of three symbols; an npm moniker attached to the
\* first symbol's tsc moniker, with or without its packageInformation edge.
NamingWorlds ==
    [uri : {UriLibB, UriSrcB},
     npm : NpmIdentifiers,
     hasPackageInformation : BOOLEAN,
     first : FirstLocalIdentifiers,
     second : SecondLocalIdentifiers,
     unique : LocalUniqueness,
     secondDocument : {2, 3}]

NamingVertices(w) ==
    <<ProjectVertex(<<"p">>),
      DocumentVertex(UriLibA),
      DocumentVertex(w.uri),
      RangeVertex(LeafShape, "definition", "f"),
      RangeVertex(LeafShape, "definition", "g"),
      RangeVertex(LeafShape, "definition", "h"),
      ResultSetVertex, ResultSetVertex, ResultSetVertex,
      MonikerVertex("tsc", <<"l", "i", "b", "/", "a", ":", "f">>, "document"),
      MonikerVertex("tsc", w.first, w.unique),
      MonikerVertex("tsc", w.second, w.unique),
      MonikerVertex("npm", w.npm, "scheme"),
      PackageInformationVertex>>

NamingEdges(w) ==
    <<<<"contains", 1, 2>>, <<"contains", 1, 3>>,
      <<"contains", 2, 4>>, <<"contains", 3, 5>>,
      <<"contains", w.secondDocument, 6>>,
      <<"next", 4, 7>>, <<"next", 5, 8>>, <<"next", 6, 9>>,
      <<"moniker", 7, 10>>, <<"moniker", 8, 11>>, <<"moniker", 9, 12>>,
      <<"attach", 13, 10>>>>
    \o (IF w.hasPackageInformation
        THEN <<<<"packageInformation", 13, 14>>>> ELSE <<>>)

\* inputStore.load: every vertex, then every edge, through the store.
RECURSIVE loadVertices(_, _, _)
loadVertices(s, vertices, i) ==
    IF i > Len(vertices) THEN s
    ELSE loadVertices(processVertex(s, i, vertices[i]), vertices, i + 1)

\* JsonStore.load over the edges: the store and the error of the first
\* edge that fails, after which no edge is processed.
RECURSIVE loadEdgesChecked(_, _, _)
loadEdgesChecked(s, es, i) ==
    IF i > Len(es) THEN <<s, <<>>>>
    ELSE LET r == doProcessEdgeEnhanced(s, es[i][1], es[i][2], es[i][3])
         IN  IF r[2] # <<>> THEN r
             ELSE loadEdgesChecked(r[1], es, i + 1)

\* The store JsonStore.load leaves behind.
loadEdges(s, es, i) == loadEdgesChecked(s, es, i)[1]

load(vertices, es) ==
    loadEdges(loadVertices(EmptyStoreOf(NamingIds, NamingUris), vertices, 1),
              es, 1)

InitNaming ==
    \E w \in NamingWorlds : \E scopes \in BOOLEAN :
        /\ store = load(NamingVertices(w), NamingEdges(w))
        /\ phase = "query"
        /\ edges = NamingEdges(w)
        /\ call = NoCall
        /\ argv = [scopes |-> scopes]
        /\ packageMaps = EmptyPackageMaps
        /\ named = EmptyMap
        /\ InitBuilder

\* buildPackageMap(inputStore), the first step of the run after the load.
BuildPackageMap ==
    /\ phase = "query"
    /\ phase' = "naming"
    /\ packageMaps' = buildPackageMap(store, packageMaps)
    /\ call' = [op |-> "buildPackageMap"]
    /\ UNCHANGED <<store, edges, argv, named, builder>>

\* followAttachEdges as a function of the store (the attach edges of the
\* inputs form no cycle).
RECURSIVE attachChain(_, _)
attachChain(s, m) ==
    IF s.inAttach[m] = None THEN <<>>
    ELSE <<s.inAttach[m]>> \o attachChain(s, s.inAttach[m])

\* The moniker processDefinitionRange names: the most unique moniker of
\* the range's tsc moniker.  No result set of the inputs has an incoming
\* next edge from a result set, so the alternates are the attach chain.
monikerOfDefinitionRange(s, r) ==
    LET tscMoniker == s.outMoniker[s.outNext[r]]
    IN  mostUniqueOf(s, tscMoniker, attachChain(s, tscMoniker))

\* const newId = monikerToFqn(getMostUniqueMoniker(tscMoniker), argv.scopes)
NameDefinitionRange(r) ==
    /\ phase = "naming"
    /\ IsRange(store, r)
    /\ LET m == monikerOfDefinitionRange(store, r)
           res == monikerToFqn(store, packageMaps, m, argv.scopes)
       IN  /\ packageMaps' = res.maps
           /\ call' = IF res.error # NoError
                       THEN [op |-> "monikerToFqn threw", moniker |-> m,
                             error |-> res.error]
                       ELSE [op |-> "monikerToFqn", moniker |-> m,
                             scopes |-> argv.scopes, result |-> res.fqn]
           /\ named' = IF MapHas(named, m) \/ res.error # NoError THEN named
                       ELSE MapSet(named, m, res.fqn)
           /\ phase' = IF res.error # NoError THEN "aborted" ELSE phase
    /\ UNCHANGED <<store, edges, argv, builder>>

NameAnyDefinitionRange == \E r \in NamingIds : NameDefinitionRange(r)

NextNaming ==
    \/ BuildPackageMap
    \/ NameAnyDefinitionRange

SpecNaming == InitNaming /\ [][NextNaming]_vars

(***************************************************************************)
(* Claims about the naming synthesizer.                                    *)
(***************************************************************************)
\* C9: within one run the name monikerToFqn returns for a moniker (with
\* the run's scopes flag) is the name it returned for that moniker the
\* first time, whatever was named in between.
C9_SameNameEveryTime ==
    call.op = "monikerToFqn" => call.result = named[call.moniker]

\* C10: no two distinct monikers named in one run have the same name.
C10_NamesInjective ==
    \A m1 \in DOMAIN named : \A m2 \in DOMAIN named :
        m1 # m2 => named[m1] # named[m2]

(***************************************************************************)
(* The model builder.  The script reads the input twice: its own loop      *)
(* fills the script's indices, then inputStore.load fills the store.       *)
(* Both are functions of the input's vertices and edges (in stream order). *)
(***************************************************************************)
\* The inV of the edges with the label that leave id, in stream order.
RECURSIVE edgeTargets(_, _, _)
edgeTargets(es, label, id) ==
    IF es = <<>> THEN <<>>
    ELSE (IF Head(es)[1] = label /\ Head(es)[2] = id
          THEN <<Head(es)[3]>> ELSE <<>>)
            \o edgeTargets(Tail(es), label, id)

\* nextIndexOut[id]: <<>> stands for undefined.
nextIndexOut(es, id) == edgeTargets(es, "next", id)

\* textDocument_referencesIndexOut[id]: the last edge's inV, or None.
textDocument_referencesIndexOut(es, id) ==
    LET targets == edgeTargets(es, "textDocument_references", id)
    IN  IF targets = <<>> THEN None ELSE targets[Len(targets)]

\* itemIndexOut[id]?.references; every item edge of the inputs has the
\* property references and one inV.
itemIndexOutReferences(es, id) == edgeTargets(es, "item", id)

\* The texts that make a definition range a marker.
MarkerTexts ==
    {"FunctionComponent", "FC", "ClassComponent", "PureComponent",
     "ComponentType", "Component", "Element"}

\* DefinitionRange.is
IsDefinitionRange(v) == v.label = "range" /\ v.tagType = "definition"

\* Object.values(componentTypeRanges): for each marker text the last
\* definition range of that text.
componentTypeRanges(vertices) ==
    SelectSeq([i \in 1..Len(vertices) |-> i],
              LAMBDA i :
                /\ IsDefinitionRange(vertices[i])
                /\ vertices[i].text \in MarkerTexts
                /\ \A j \in (i + 1)..Len(vertices) :
                      ~(/\ IsDefinitionRange(vertices[j])
                        /\ vertices[j].text = vertices[i].text))

\* JsonStore.getResultPath(range.id, out.references): the reference result
\* and the moniker of the first vertex along the next edges that has a
\* textDocument_references edge; value None when the path ends before.
RECURSIVE referencesPath(_, _, _, _)
referencesPath(s, es, id, lastMoniker) ==
    LET value == textDocument_referencesIndexOut(es, id)
        moniker == s.outMoniker[id]
        seen == IF moniker # None THEN moniker ELSE lastMoniker
    IN  IF value # None
        THEN [value |-> value, moniker |-> moniker, pathMoniker |-> seen]
        ELSE IF s.outNext[id] = None
        THEN [value |-> None, moniker |-> None, pathMoniker |-> seen]
        ELSE referencesPath(s, es, s.outNext[id], seen)

\* JsonStoreEnhanced.getMonikerFromRange: undefined (None) without a
\* reference result, else getMostSpecificMoniker of the path.
getMonikerFromRange(s, es, r) ==
    LET path == referencesPath(s, es, r, None)
    IN  IF path.value = None THEN None
        ELSE IF path.moniker # None THEN path.moniker
        ELSE path.pathMoniker

\* JsonStore.findRangeFromPosition over one document's ranges: the
\* smallest range whose span holds the position.
RECURSIVE scanRanges(_, _, _, _, _)
scanRanges(s, contains, position, i, candidate) ==
    IF i > Len(contains) THEN candidate
    ELSE LET item == s.all[contains[i]]
             holds == /\ item.label = "range"
                      /\ containsPosition(Rng(item.start, item.end), position)
             takes == \/ candidate = None
                      \/ containsRange(Rng(s.all[candidate].start,
                                           s.all[candidate].end),
                                       Rng(item.start, item.end))
         IN  scanRanges(s, contains, position, i + 1,
                        IF holds /\ takes THEN contains[i] ELSE candidate)

RECURSIVE findRangesFromPositionOver(_, _, _)
findRangesFromPositionOver(s, docs, position) ==
    IF docs = <<>> THEN <<>>
    ELSE LET candidate ==
                scanRanges(s, s.outContains[Head(docs)], position, 1, None)
         IN  (IF candidate = None THEN <<>> ELSE <<candidate>>)
                \o findRangesFromPositionOver(s, Tail(docs), position)

\* JsonStore.references(uri, position, {includeDeclaration: false}): the
\* ranges of the item edges of the reference result of the range at the
\* position, each once.  <<>> stands for undefined or no location.
RECURSIVE dedup(_, _)
dedup(ids, seen) ==
    IF ids = <<>> THEN <<>>
    ELSE IF Head(ids) \in seen THEN dedup(Tail(ids), seen)
    ELSE <<Head(ids)>> \o dedup(Tail(ids), seen \cup {Head(ids)})

RECURSIVE referenceItemsOver(_, _, _)
referenceItemsOver(s, es, ranges) ==
    IF ranges = <<>> THEN <<>>
    ELSE LET path == referencesPath(s, es, Head(ranges), None)
         IN  (IF path.value = None THEN <<>>
              ELSE itemIndexOutReferences(es, path.value))
                \o referenceItemsOver(s, es, Tail(ranges))

references(s, es, uri, position) ==
    IF uri \notin DOMAIN s.documents THEN <<>>
    ELSE SelectSeq(
            dedup(referenceItemsOver(s, es,
                    findRangesFromPositionOver(s, s.documents[uri], position)),
                  {}),
            LAMBDA r : IsRange(s, r) /\ getDocumentFromRange(s, r) # None)

\* inputStore.documentSymbols(uri): the symbol-bearing ranges of the
\* documents of the uri.
RECURSIVE documentSymbolsOver(_, _)
documentSymbolsOver(s, docs) ==
    IF docs = <<>> THEN <<>>
    ELSE SelectSeq(s.outContains[Head(docs)],
                   LAMBDA r : /\ IsDefinitionOrDeclaration(s.all[r])
                              /\ s.all[r].text # "")
            \o documentSymbolsOver(s, Tail(docs))

documentSymbols(s, uri) == documentSymbolsOver(s, s.documents[uri])

(***************************************************************************)
(* The model index (ModelIndex of the diagram library): the elements and   *)
(* the relations in insertion order.  The trie of the index (root, and per *)
(* node an optional element and the children by name) is a function of the *)
(* element ids: its nodes are the prefixes of the ids split at ".".        *)
(***************************************************************************)
SourceNotFound == "Source of relation not found"
TargetNotFound == "Target of relation not found"
DuplicateElement == "Duplicate element"

elementIds(m) == {m.elements[i].id : i \in 1..Len(m.elements)}
hasElement(m, id) == id \in elementIds(m)
relationIds(m) == {m.relations[i].id : i \in 1..Len(m.relations)}

\* The path of an id and the id of a path.
pathOf(id) == split(id, ".")
AsFqn(name, parent) == IF parent = <<>> THEN name ELSE parent \o <<".">> \o name
parentOf(id) ==
    LET path == pathOf(id)
    IN  join(SubSeq(path, 1, Len(path) - 1), <<".">>)

\* model.addElement: the model and the error thrown, NoError for none.
modelAddElement(m, element) ==
    IF \E i \in 1..Len(m.elements) :
            m.elements[i].id = element.id /\ m.elements[i] # element
    THEN [model |-> m, error |-> DuplicateElement]
    ELSE IF hasElement(m, element.id)
    THEN [model |-> m, error |-> NoError]
    ELSE [model |-> [m EXCEPT !.elements = Append(@, element)],
          error |-> NoError]

\* addElement(model, element) of the script.
addElement(m, element) == modelAddElement(m, element)

\* model.addRelation: the source is looked up before the target.
addRelation(m, relation) ==
    IF ~hasElement(m, relation.source)
    THEN [model |-> m, error |-> SourceNotFound]
    ELSE IF ~hasElement(m, relation.target)
    THEN [model |-> m, error |-> TargetNotFound]
    ELSE IF relation.id \in relationIds(m)
    THEN [model |-> [m EXCEPT !.relations =
                        [i \in 1..Len(@) |-> IF @[i].id = relation.id
                                             THEN relation ELSE @[i]]],
          error |-> NoError]
    ELSE [model |-> [m EXCEPT !.relations = Append(@, relation)],
          error |-> NoError]

\* The trie: the names of the children of the node of a path, in the order
\* the elements created them.
RECURSIVE childNamesOver(_, _, _)
childNamesOver(elements, parent, seen) ==
    IF elements = <<>> THEN <<>>
    ELSE LET path == pathOf(Head(elements).id)
             depth == IF parent = <<>> THEN 0 ELSE Len(pathOf(parent))
             under == /\ Len(path) > depth
                      /\ (depth = 0 \/
                          join(SubSeq(path, 1, depth), <<".">>) = parent)
             name == path[depth + 1]
         IN  IF under /\ name \notin seen
             THEN <<name>> \o childNamesOver(Tail(elements), parent,
                                             seen \cup {name})
             ELSE childNamesOver(Tail(elements), parent, seen)

childNames(m, parent) == childNamesOver(m.elements, parent, {})

\* model.children(id) and model.rootElements(): the elements held by the
\* children of the node.
children(m, id) ==
    SelectSeq(m.elements, LAMBDA el : parentOf(el.id) = id)
rootElements(m) == children(m, <<>>)

\* testRegex.test(uri): a file below a __tests__ folder, or a
\* .stories/.spec/.test file, with a js, jsx, ts or tsx extension.
scriptExtensionAt(s, i) ==
    /\ i + 2 <= Len(s)
    /\ s[i] = "." /\ s[i + 1] \in {"j", "t"} /\ s[i + 2] = "s"
testRegex(uri) ==
    \/ \E i \in 1..Len(uri) : \E j \in (i + 1)..Len(uri) :
          /\ startsWith(substring(uri, i - 1),
                        <<"/", "_", "_", "t", "e", "s", "t", "s", "_", "_", "/">>)
          /\ j >= i + 11
          /\ scriptExtensionAt(uri, j)
    \/ \E i \in 1..Len(uri) : \E w \in {<<"s", "t", "o", "r", "i", "e", "s">>,
                                        <<"s", "p", "e", "c">>,
                                        <<"t", "e", "s", "t">>} :
          /\ i > 1
          /\ uri[i - 1] # "/"
          /\ startsWith(substring(uri, i - 1), <<".">> \o w)
          /\ scriptExtensionAt(uri, i + Len(w) + 1)

uriOfRange(s, r) ==
    IF getDocumentFromRange(s, r) = None THEN <<>>
    ELSE s.all[getDocumentFromRange(s, r)].uri

\* The kinds of typeElementKinds.
typeElementKinds == {"class", "interface", "struct", "enum", "type-parameter"}

\* getMostUniqueMoniker of the moniker of a range; the attach edges of the
\* inputs form no cycle and no result set has an incoming next edge from a
\* result set, so the alternates are the attach chain.
getMostUniqueMoniker(s, m) == mostUniqueOf(s, m, attachChain(s, m))

\* The state the processing functions work on.
BuilderState(m, edr, processed, maps) ==
    [model |-> m, elementDefinitionRanges |-> edr,
     resultSetIdsProcessed |-> processed, packageMaps |-> maps,
     error |-> NoError]

\* elementDefinitionRanges.set(id, range) and .has(id): a Map in insertion
\* order, as pairs <<id, range>>.
edrHas(edr, id) == \E i \in 1..Len(edr) : edr[i][1] = id
edrSet(edr, id, r) ==
    IF edrHas(edr, id)
    THEN [i \in 1..Len(edr) |-> IF edr[i][1] = id THEN <<id, r>> ELSE edr[i]]
    ELSE Append(edr, <<id, r>>)
edrKeys(edr) == {edr[i][1] : i \in 1..Len(edr)}

\* resultSetIdsProcessed.has(resultSetId), and a variant that never takes a
\* result set for processed.
alreadyProcessedNever(processed, resultSetId) == FALSE
alreadyProcessed(processed, resultSetId) == resultSetId \in processed

\* The end of processDefinitionRange: addElement(model, {id: newId, ...})
\* and elementDefinitionRanges.set(newId, definitionRange), with the name
\* and the maps monikerToFqn gave.  A variant records the range without
\* the element.
commitElementUnchecked(st, definitionRange, res, added) ==
    [st EXCEPT !.packageMaps = res.maps,
               !.elementDefinitionRanges = edrSet(@, res.fqn, definitionRange)]
commitElement(st, definitionRange, res, added) ==
    IF added.error # NoError
    THEN [st EXCEPT !.packageMaps = res.maps, !.error = added.error]
    ELSE [st EXCEPT !.packageMaps = res.maps,
                    !.model = added.model,
                    !.elementDefinitionRanges =
                        edrSet(@, res.fqn, definitionRange)]

addNamedElement(st, definitionRange, res, kind, title, tags) ==
    IF res.error # NoError THEN [st EXCEPT !.error = res.error]
    ELSE
    commitElement(st, definitionRange, res,
        addElement(st.model,
            [id |-> res.fqn, kind |-> kind, title |-> title, tags |-> tags]))

\* The tags of the element: test for a test file, type for a type kind.
elementTags(uri, kind, tags) ==
    (IF testRegex(uri) THEN Append(tags, "test") ELSE tags)
        \o (IF kind \in typeElementKinds THEN <<"type">> ELSE <<>>)

\* processDefinitionRange(definitionRange, {kind, tags}).  No result set of
\* the inputs has a hover, so kind and description are the given ones.
processDefinitionRange(s, es, st, scopes, definitionRange, kind, tags) ==
    IF nextIndexOut(es, definitionRange) = <<>>
    THEN [st EXCEPT !.error = "TypeError: nextIndexOut[id] is undefined"]
    ELSE IF alreadyProcessed(st.resultSetIdsProcessed,
                             nextIndexOut(es, definitionRange)[1])
    THEN st
    ELSE IF getMonikerFromRange(s, es, definitionRange) = None
    THEN [st EXCEPT !.resultSetIdsProcessed =
                        @ \cup {nextIndexOut(es, definitionRange)[1]},
                    !.error = "Expected a tsc moniker"]
    ELSE addNamedElement(
            [st EXCEPT !.resultSetIdsProcessed =
                            @ \cup {nextIndexOut(es, definitionRange)[1]}],
            definitionRange,
            monikerToFqn(s, st.packageMaps,
                getMostUniqueMoniker(s,
                    getMonikerFromRange(s, es, definitionRange)),
                scopes),
            kind, s.all[definitionRange].text,
            elementTags(uriOfRange(s, definitionRange), kind, tags))

\* The body of the forEach of processTypeDefinitionReferences for one
\* reference id of the marker's reference result.
processTypeReference(s, es, st, scopes, referenceId) ==
    LET reference == s.all[referenceId]
        definitionRange ==
            Head(findFullRangesFromPosition(s, uriOfRange(s, referenceId),
                                            reference.start))
    IN  IF ~(reference.label = "range" /\ reference.tagType = "reference")
        THEN st
        ELSE IF definitionRange = None
                \/ ~IsDefinitionRange(s.all[definitionRange])
        THEN st
        ELSE processDefinitionRange(s, es, st, scopes, definitionRange,
                                    "widget", <<"widget", "component", "react">>)

RECURSIVE processTypeReferences(_, _, _, _, _)
processTypeReferences(s, es, st, scopes, referenceIds) ==
    IF referenceIds = <<>> \/ st.error # NoError THEN st
    ELSE processTypeReferences(s, es,
            processTypeReference(s, es, st, scopes, Head(referenceIds)),
            scopes, Tail(referenceIds))

\* processTypeDefinitionReferences(range, tags)
processTypeDefinitionReferences(s, es, st, scopes, range) ==
    IF nextIndexOut(es, range) = <<>>
    THEN [st EXCEPT !.error = "TypeError: nextIndexOut[id] is undefined"]
    ELSE LET resultSetId == nextIndexOut(es, range)[1]
             referenceResultId == textDocument_referencesIndexOut(es, resultSetId)
         IN  IF referenceResultId = None THEN st
             ELSE processTypeReferences(s, es, st, scopes,
                        itemIndexOutReferences(es, referenceResultId))

\* Object.values(componentTypeRanges).map(processTypeDefinitionReferences)
RECURSIVE seedPass(_, _, _, _, _)
seedPass(s, es, st, scopes, ranges) ==
    IF ranges = <<>> \/ st.error # NoError THEN st
    ELSE seedPass(s, es,
            processTypeDefinitionReferences(s, es, st, scopes, Head(ranges)),
            scopes, Tail(ranges))

\* The body of the exhaustive pass for one document symbol.
processDocumentSymbol(s, es, st, scopes, uri, symbol) ==
    LET definitionRange ==
            Head(findFullRangesFromPosition(s, uri, s.all[symbol].start))
    IN  IF definitionRange = None \/ ~IsDefinitionRange(s.all[definitionRange])
        THEN st
        ELSE processDefinitionRange(s, es, st, scopes, definitionRange,
                                    "function", <<"document-symbol">>)

\* The relation of a reference: from the referencing element to the
\* referenced one; a variant with the ends exchanged and one whose id does
\* not name the ends.
newRelationSharedId(referenceId, id) ==
    [source |-> referenceId, target |-> id, tags |-> <<"reference">>,
     id |-> <<"r", "e", "f", "e", "r", "e", "n", "c", "e">>]
newRelationReversed(referenceId, id) ==
    [source |-> id, target |-> referenceId, tags |-> <<"reference">>,
     id |-> id \o <<"_", "r", "e", "f", "e", "r", "e", "n", "c", "e", "_">>
               \o referenceId]
newRelation(referenceId, id) ==
    [source |-> referenceId, target |-> id, tags |-> <<"reference">>,
     id |-> referenceId
               \o <<"_", "r", "e", "f", "e", "r", "e", "n", "c", "e", "_">>
               \o id]

\* The catch of the relation pass after processDefinitionRange has run:
\* model.addRelation(newRelation) once more; what it throws ends the run.
retryRelation(synthesized, retried) ==
    IF synthesized.error # NoError
    THEN [st |-> synthesized, outcome |-> "synthesis failed"]
    ELSE IF retried.error # NoError
    THEN [st |-> [synthesized EXCEPT !.error = retried.error],
          outcome |-> "retry failed"]
    ELSE [st |-> [synthesized EXCEPT !.model = retried.model],
          outcome |-> "added after synthesis"]

synthesizeSource(synthesized, relation) ==
    retryRelation(synthesized, addRelation(synthesized.model, relation))

\* try { model.addRelation(newRelation) } catch: only a missing source is
\* handled, every other error is swallowed.
commitRelation(s, es, st, scopes, definitionRange, relation, first) ==
    IF first.error = NoError
    THEN [st |-> [st EXCEPT !.model = first.model], outcome |-> "added"]
    ELSE IF first.error # SourceNotFound
    THEN [st |-> st, outcome |-> "swallowed"]
    ELSE synthesizeSource(
            processDefinitionRange(s, es, st, scopes, definitionRange,
                                   "function", <<"unknown">>),
            relation)

\* logger.error(...); return: the location is skipped, nothing changes.  A
\* variant that throws instead.
skipLocationThrowing(st, outcome) ==
    [st |-> [st EXCEPT !.error = outcome], outcome |-> outcome]
skipLocation(st, outcome) == [st |-> st, outcome |-> outcome]

\* referenceId === id, and a variant that takes no name for the element's
\* own.
isSelfReferenceNever(referenceId, id) == FALSE
isSelfReference(referenceId, id) == referenceId = id

relateNamed(s, es, st, scopes, id, definitionRange, res) ==
    IF res.error # NoError
    THEN [st |-> [st EXCEPT !.error = res.error], outcome |-> "naming failed"]
    ELSE IF isSelfReference(res.fqn, id)
    THEN skipLocation([st EXCEPT !.packageMaps = res.maps], "self name")
    ELSE commitRelation(s, es, [st EXCEPT !.packageMaps = res.maps], scopes,
                        definitionRange, newRelation(res.fqn, id),
                        addRelation(st.model, newRelation(res.fqn, id)))

relateFrom(s, es, st, scopes, id, reference, definitionRange) ==
    IF definitionRange = None \/ ~IsDefinitionRange(s.all[definitionRange])
    THEN skipLocation(st, "no definition range")
    ELSE IF definitionRange = reference
    THEN skipLocation(st, "self range")
    ELSE IF getMonikerFromRange(s, es, definitionRange) = None
    THEN skipLocation(st, "no moniker")
    ELSE relateNamed(s, es, st, scopes, id, definitionRange,
            monikerToFqn(s, st.packageMaps,
                getMostUniqueMoniker(s,
                    getMonikerFromRange(s, es, definitionRange)),
                scopes))

\* The body of the inner forEach of the relation pass: one reference
\* location (a range) of the element id with the definition range
\* reference.  outcome tells which branch was taken.
processReferenceLocation(s, es, st, scopes, id, reference, location) ==
    relateFrom(s, es, st, scopes, id, reference,
        Head(findFullRangesFromPosition(s, uriOfRange(s, location),
                                        s.all[location].start)))

(***************************************************************************)
(* Scope synthesis.                                                        *)
(***************************************************************************)
\* folderRegex.test(name) of the global regular expression, entered with
\* its lastIndex: whether it matches at or after lastIndex, and the
\* lastIndex it leaves.
folderRegexTest(name, lastIndex) ==
    LET At == {k \in (lastIndex + 1)..Len(name) : folderRegexAt(name, k)}
        k == CHOOSE x \in At : \A y \in At : x <= y
    IN  IF At = {} THEN [matches |-> FALSE, lastIndex |-> 0]
        ELSE [matches |-> TRUE,
              lastIndex |-> k - 1 + folderMatchLen(name, k)]

\* testFolderRegex.test(name)
testFolderRegex(name) ==
    \E w \in {<<"_", "_", "t", "e", "s", "t", "s", "_", "_">>,
              <<"T", "e", "s", "t", "s">>,
              <<"_", "_", "m", "o", "c", "k", "s", "_", "_">>,
              <<"M", "o", "c", "k", "s", "D", "i", "r">>,
              <<"S", "t", "o", "r", "i", "e", "s", "D", "i", "r">>,
              <<"s", "t", "o", "r", "i", "e", "s", "D", "i", "r">>} :
        indexOf(name, w) # 0

\* The d of the tag level-d: parent === "" ? 0 : parent.split(".").length,
\* and a variant without the case of the empty parent.
scopeLevelBySplit(parent) == Len(pathOf(parent))
scopeLevel(parent) == IF parent = <<>> THEN 0 ELSE Len(pathOf(parent))

\* The element addElementsForScopes adds for a child without an element,
\* and the lastIndex folderRegex is left with: the title's replace resets
\* it, the description's test sets it again.
scopeElement(trie, name, parent, lastIndex) ==
    LET isPkg == endsWith(name, <<"P", "k", "g">>)
        kindTest == folderRegexTest(name, lastIndex)
        tags0 == <<"scope", "level-" \o ToString(scopeLevel(parent))>>
        tags1 == IF Len(childNames(trie, AsFqn(name, parent))) = 1
                 THEN Append(tags0, "single-child") ELSE tags0
        tags2 == IF testFolderRegex(name) THEN Append(tags1, "test") ELSE tags1
    IN  [element |->
            [id |-> AsFqn(name, parent),
             kind |-> IF isPkg THEN "package"
                      ELSE IF kindTest.matches THEN "folder" ELSE "scope",
             title |-> name,
             tags |-> tags2],
         lastIndex |-> IF isPkg THEN 0
                       ELSE folderRegexTest(name, 0).lastIndex]

\* addElementsForScopes(model, parent, trie), over the child entries from
\* the given one on.  The trie's shape is that of the model on entry: an
\* element added for a node adds no node.
RECURSIVE addElementsForScopesOver(_, _, _, _)
addElementsForScopesOver(trie, st, parent, names) ==
    IF names = <<>> THEN st
    ELSE LET name == Head(names)
             id == AsFqn(name, parent)
             made == scopeElement(trie, name, parent, st.lastIndex)
             st1 == IF hasElement(trie, id) THEN st
                    ELSE [model |-> addElement(st.model, made.element).model,
                          lastIndex |-> made.lastIndex]
             st2 == addElementsForScopesOver(trie, st1, id, childNames(trie, id))
         IN  addElementsForScopesOver(trie, st2, parent, Tail(names))

addElementsForScopes(m) ==
    addElementsForScopesOver(m, [model |-> m, lastIndex |-> 0], <<>>,
                             childNames(m, <<>>)).model

(***************************************************************************)
(* The DSL emitter.  The text is held as its lines, each line as a record  *)
(* of what it says.                                                        *)
(***************************************************************************)
\* a.localeCompare(b) < 0 for ids: character by character, punctuation
\* before digits before letters, a lower-case letter before its capital.
Collation ==
    <<"_", "-", ".", ":", "/", "0", "1", "2", "3", "4", "5", "6", "7", "8", "9",
      "a", "A", "b", "B", "c", "C", "d", "D", "e", "E", "f", "F", "g", "G",
      "h", "H", "i", "I", "j", "J", "k", "K", "l", "L", "m", "M", "n", "N",
      "o", "O", "p", "P", "q", "Q", "r", "R", "s", "S", "t", "T", "u", "U",
      "v", "V", "w", "W", "x", "X", "y", "Y", "z", "Z">>
collationRank(c) ==
    IF \E i \in 1..Len(Collation) : Collation[i] = c
    THEN CHOOSE i \in 1..Len(Collation) : Collation[i] = c
    ELSE 0

RECURSIVE localeBefore(_, _)
localeBefore(a, b) ==
    IF b = <<>> THEN FALSE
    ELSE IF a = <<>> THEN TRUE
    ELSE IF Head(a) = Head(b) THEN localeBefore(Tail(a), Tail(b))
    ELSE collationRank(Head(a)) < collationRank(Head(b))

\* elements.sort((a, b) => a.id.localeCompare(b.id))
RECURSIVE insertById(_, _)
insertById(sorted, el) ==
    IF sorted = <<>> THEN <<el>>
    ELSE IF localeBefore(el.id, Head(sorted).id) THEN <<el>> \o sorted
    ELSE <<Head(sorted)>> \o insertById(Tail(sorted), el)

\* The array as model.children / model.rootElements return it, unsorted.
sortByInsertion(elements) == elements

RECURSIVE sortById(_)
sortById(elements) ==
    IF elements = <<>> THEN <<>>
    ELSE insertById(sortById(SubSeq(elements, 1, Len(elements) - 1)),
                    elements[Len(elements)])

\* nameFromFqn(id): the last segment.
nameFromFqn(id) == pathOf(id)[Len(pathOf(id))]

\* toElementDsl over a sorted array of elements: for each the element's
\* line, its tags line, its children in order, then the closing line.
RECURSIVE toElementsDsl(_, _, _)
toElementsDsl(elements, m, indent) ==
    IF elements = <<>> THEN <<>>
    ELSE LET el == Head(elements)
         IN  <<[line |-> "element", indent |-> indent,
                name |-> nameFromFqn(el.id), id |-> el.id, kind |-> el.kind,
                title |-> el.title],
               [line |-> "tags", indent |-> indent + 1, tags |-> el.tags]>>
                \o toElementsDsl(sortById(children(m, el.id)), m, indent + 1)
                \o <<[line |-> "close", indent |-> indent + 1]>>
                \o toElementsDsl(Tail(elements), m, indent)

\* toElementDsl(el, model, indent)
toElementDsl(el, m, indent) == toElementsDsl(<<el>>, m, indent)

\* Every written element, with or without children, sorted.
writtenElementsSorted(lines, m) ==
    sortById(SelectSeq(m.elements,
        LAMBDA el : \E i \in 1..Len(lines) :
                        lines[i].line = "element" /\ lines[i].id = el.id))

\* containerElements, sorted: the written elements that have children.
containerElementsSorted(lines, m) ==
    sortById(SelectSeq(m.elements,
        LAMBDA el : /\ children(m, el.id) # <<>>
                    /\ \E i \in 1..Len(lines) :
                          lines[i].line = "element" /\ lines[i].id = el.id))

modelIndexToDsl(m, scopes) ==
    LET kinds == {m.elements[i].kind : i \in 1..Len(m.elements)}
        tags == UNION ({ {m.elements[i].tags[k] :
                              k \in 1..Len(m.elements[i].tags)} :
                         i \in 1..Len(m.elements)}
                  \cup { {m.relations[i].tags[k] :
                              k \in 1..Len(m.relations[i].tags)} :
                         i \in 1..Len(m.relations)})
        elementLines == toElementsDsl(sortById(rootElements(m)), m, 1)
        relationLines ==
            [i \in 1..Len(m.relations) |->
                [line |-> "relation", source |-> m.relations[i].source,
                 target |-> m.relations[i].target,
                 tags |-> m.relations[i].tags]]
        containers == containerElementsSorted(elementLines, m)
        scopeContainers ==
            SelectSeq(containers,
                      LAMBDA el : \E k \in 1..Len(el.tags) : el.tags[k] = "scope")
        scopeViews ==
            IF scopes
            THEN <<[line |-> "view", name |-> "indexFlat",
                    include |-> [i \in 1..Len(scopeContainers) |->
                                    scopeContainers[i].id],
                    excludeScope |-> "scope" \in tags],
                   [line |-> "view", name |-> "indexShallow",
                    include |-> [i \in 1..Len(scopeContainers) |->
                                    scopeContainers[i].id],
                    excludeScope |-> "scope" \in tags]>>
            ELSE <<>>
        widgetViews ==
            IF "widget" \in kinds
            THEN <<[line |-> "view", name |-> "indexWidgets"]>> ELSE <<>>
        containerViews ==
            [i \in 1..Len(containers) |->
                [line |-> "view", name |-> "of", of |-> containers[i].id]]
    IN  <<[line |-> "specification", kinds |-> kinds, tags |-> tags],
          [line |-> "model"]>>
            \o elementLines \o relationLines
            \o <<[line |-> "views"], [line |-> "view", name |-> "index"]>>
            \o scopeViews \o widgetViews \o containerViews

(***************************************************************************)
(* The builder's run over one input: the load, buildPackageMap, the seed   *)
(* pass, the exhaustive pass, the relation pass, scope synthesis, output.  *)
(***************************************************************************)
BuildIds == 1..20
BuildUris == {UriLibA}
HoverResultVertex == [label |-> "hoverResult"]
ReferenceResultVertex == [label |-> "referenceResult"]

Span(line, from, to, fullTo) ==
    Shape(Pos(line, from), Pos(line, to), Pos(line, from), Pos(line, fullTo))

\* The inputs: one project with one document that declares the functions
\* foo and bar.  foo is referenced inside bar, outside every declaration,
\* or not at all; bar is referenced inside foo or not at all; bar's tsc
\* moniker has an npm moniker attached, with or without package
\* information, or none.  One deviation at most: a second moniker on foo's
\* result set, no moniker on it, a marker type FC referenced inside bar
\* (with or without the marker's next edge), bar without its next edge, an
\* edge to an id no vertex has, a third declaration nested in foo, a
\* reference to foo inside foo's own declaration, a second declaration
\* of foo (same result set) with a reference to foo inside it, an npm
\* moniker of another package attached to foo's tsc moniker, or a tsc
\* moniker attached to foo's tsc moniker and then to a moniker that no
\* result set carries, or a third declaration baz after foo and bar whose
\* name lies inside foo's declaration and whose own declaration reaches
\* beyond it to line 2, with a reference to baz inside bar.
Deviations ==
    {"none", "twoMonikers", "noMoniker", "markerFC", "markerFCNoNext",
     "barNoNext", "badEdge", "nested", "recursive", "overload",
     "twoPackages", "danglingAttach", "overlap"}
BuildWorlds ==
    [refFoo : {"inBar", "outside", "none"},
     refBar : {"inFoo", "none"},
     npm : {"none", "attached", "withPackage"},
     deviation : Deviations]

HasMarker(w) == w.deviation \in {"markerFC", "markerFCNoNext"}
RefersToItself(w) == w.deviation \in {"recursive", "overload"}

BuildVertices(w) ==
    <<ProjectVertex(<<"p">>),
      DocumentVertex(UriLibA),
      RangeVertex(Span(0, 0, 1, 9), "definition", "foo"),
      RangeVertex(Span(1, 0, 1, 9), "definition", "bar"),
      RangeVertex(IF w.refFoo = "outside" THEN Span(2, 0, 1, 1)
                  ELSE Span(1, 5, 6, 6), "reference", "foo"),
      RangeVertex(Span(0, 5, 6, 6), "reference", "bar"),
      ResultSetVertex, ResultSetVertex,
      MonikerVertex("tsc", <<"a", ":", "f", "o", "o">>, "document"),
      MonikerVertex("tsc", <<"a", ":", "b", "a", "r">>, "document"),
      ReferenceResultVertex, ReferenceResultVertex,
      MonikerVertex("npm", <<"k", ":", "l", "i", "b", "/", "a", ".", "t", "s",
                             ":", "b", "a", "r">>, "scheme"),
      PackageInformationVertex,
      MonikerVertex("tsc", <<"a", ":", "f", "o">>, "document"),
      IF HasMarker(w)
      THEN RangeVertex(Span(3, 0, 1, 9), "definition", "FC")
      ELSE IF w.deviation = "nested"
      THEN RangeVertex(Span(0, 3, 4, 8), "definition", "baz")
      ELSE IF w.deviation = "overload"
      THEN RangeVertex(Span(3, 0, 1, 9), "definition", "foo")
      ELSE IF w.deviation = "overlap"
      THEN RangeVertex(Shape(Pos(0, 8), Pos(0, 9), Pos(0, 8), Pos(2, 9)),
                       "definition", "baz")
      ELSE HoverResultVertex,
      ResultSetVertex,
      ReferenceResultVertex,
      IF w.deviation = "recursive"
      THEN RangeVertex(Span(0, 7, 8, 8), "reference", "foo")
      ELSE IF w.deviation = "overload"
      THEN RangeVertex(Span(3, 5, 6, 6), "reference", "foo")
      ELSE IF w.deviation = "overlap"
      THEN RangeVertex(Span(1, 7, 8, 8), "reference", "baz")
      ELSE RangeVertex(Span(1, 7, 8, 8), "reference", "FC"),
      IF w.deviation = "twoPackages"
      THEN MonikerVertex("npm", <<"j", ":", "l", "i", "b", "/", "a", ".", "t",
                                  "s", ":", "f", "o", "o">>, "scheme")
      ELSE MonikerVertex("tsc", <<"a", ":", "b", "a", "z">>, "document")>>

UnknownBuildId == Cardinality(BuildIds) + 1

BuildEdges(w) ==
    <<<<"contains", 1, 2>>, <<"contains", 2, 3>>, <<"contains", 2, 4>>>>
    \o (IF w.refFoo # "none" THEN <<<<"contains", 2, 5>>>> ELSE <<>>)
    \o (IF w.refBar # "none" THEN <<<<"contains", 2, 6>>>> ELSE <<>>)
    \o (IF HasMarker(w) \/ w.deviation \in {"nested", "overload", "overlap"}
        THEN <<<<"contains", 2, 16>>>> ELSE <<>>)
    \o (IF HasMarker(w) \/ RefersToItself(w) \/ w.deviation = "overlap"
        THEN <<<<"contains", 2, 19>>>> ELSE <<>>)
    \o <<<<"next", 3, 7>>>>
    \o (IF w.deviation # "barNoNext" THEN <<<<"next", 4, 8>>>> ELSE <<>>)
    \o (IF w.refFoo # "none" THEN <<<<"next", 5, 7>>>> ELSE <<>>)
    \o (IF w.refBar # "none" THEN <<<<"next", 6, 8>>>> ELSE <<>>)
    \o (IF w.deviation # "noMoniker" THEN <<<<"moniker", 7, 9>>>> ELSE <<>>)
    \o (IF w.deviation = "twoMonikers" THEN <<<<"moniker", 7, 15>>>> ELSE <<>>)
    \o <<<<"moniker", 8, 10>>,
         <<"textDocument_references", 7, 11>>,
         <<"textDocument_references", 8, 12>>>>
    \o (IF w.refFoo # "none" THEN <<<<"item", 11, 5>>>> ELSE <<>>)
    \o (IF w.refBar # "none" THEN <<<<"item", 12, 6>>>> ELSE <<>>)
    \o (IF w.npm # "none" THEN <<<<"attach", 13, 10>>>> ELSE <<>>)
    \o (IF w.npm = "withPackage"
        THEN <<<<"packageInformation", 13, 14>>>> ELSE <<>>)
    \o (IF w.deviation = "markerFC" THEN <<<<"next", 16, 17>>>> ELSE <<>>)
    \o (IF HasMarker(w)
        THEN <<<<"textDocument_references", 17, 18>>, <<"item", 18, 19>>,
               <<"next", 19, 17>>>>
        ELSE <<>>)
    \o (IF w.deviation \in {"nested", "overlap"}
        THEN <<<<"next", 16, 17>>, <<"moniker", 17, 20>>>> ELSE <<>>)
    \o (IF w.deviation = "overlap"
        THEN <<<<"textDocument_references", 17, 18>>, <<"item", 18, 19>>,
               <<"next", 19, 17>>>>
        ELSE <<>>)
    \o (IF w.deviation = "twoPackages" THEN <<<<"attach", 20, 9>>>> ELSE <<>>)
    \o (IF w.deviation = "danglingAttach"
        THEN <<<<"attach", 15, 9>>, <<"attach", 15, 20>>>> ELSE <<>>)
    \o (IF w.deviation = "overload" THEN <<<<"next", 16, 7>>>> ELSE <<>>)
    \o (IF RefersToItself(w)
        THEN <<<<"next", 19, 7>>, <<"item", 11, 19>>>> ELSE <<>>)
    \o (IF w.deviation = "badEdge"
        THEN <<<<"contains", 2, UnknownBuildId>>>> ELSE <<>>)

InitBuild ==
    \E w \in BuildWorlds : \E scopes \in BOOLEAN :
        /\ store = EmptyStoreOf(BuildIds, BuildUris)
        /\ phase = "start"
        /\ edges = BuildEdges(w)
        /\ call = NoCall
        /\ argv = [scopes |-> scopes, input |-> w]
        /\ packageMaps = EmptyPackageMaps
        /\ named = EmptyMap
        /\ InitBuilder

\* The state of the processing functions, from and to the variables.
CurrentState ==
    BuilderState(model, elementDefinitionRanges, resultSetIdsProcessed,
                 packageMaps)

\* The run goes on with the pass of the cursor c, or ends with the error
\* thrown: no statement of the script catches it.  A variant in which the
\* error is caught and the run goes on.
ContinueCatching(st, c) ==
    /\ model' = st.model
    /\ elementDefinitionRanges' = st.elementDefinitionRanges
    /\ resultSetIdsProcessed' = st.resultSetIdsProcessed
    /\ packageMaps' = st.packageMaps
    /\ phase' = phase
    /\ cursor' = c
Continue(st, c) ==
    /\ model' = st.model
    /\ elementDefinitionRanges' = st.elementDefinitionRanges
    /\ resultSetIdsProcessed' = st.resultSetIdsProcessed
    /\ packageMaps' = st.packageMaps
    /\ IF st.error = NoError
       THEN phase' = phase /\ cursor' = c
       ELSE phase' = "aborted" /\ cursor' = cursor

\* await inputStore.load(argv.input.path): the vertices, then the edges;
\* the first edge that fails ends the run.
LoadInput ==
    /\ phase = "start"
    /\ LET vertices == BuildVertices(argv.input)
           r == loadEdgesChecked(loadVertices(store, vertices, 1), edges, 1)
       IN  /\ store' = r[1]
           /\ phase' = IF r[2] = <<>> THEN "query" ELSE "aborted"
           /\ call' = [op |-> "load", error |-> r[2]]
    /\ UNCHANGED <<edges, script>>

\* The reference locations of the element of an entry of
\* elementDefinitionRanges.
referenceLocations(s, es, entry) ==
    references(s, es, uriOfRange(s, entry[2]), s.all[entry[2]].start)

\* The cursor of the relation pass at or after entry i, location j: the
\* next location there is, the scope synthesis when there is none.
\* A variant that ends the pass after the entry it is at.
relationCursorOfEntry(s, es, edr, i, j) ==
    IF i > Len(edr) \/ j > Len(referenceLocations(s, es, edr[i]))
    THEN [pass |-> "scopes"]
    ELSE [pass |-> "relations", entry |-> i, location |-> j]

RECURSIVE relationCursor(_, _, _, _, _)
relationCursor(s, es, edr, i, j) ==
    IF i > Len(edr) THEN [pass |-> "scopes"]
    ELSE IF j > Len(referenceLocations(s, es, edr[i]))
    THEN relationCursor(s, es, edr, i + 1, 1)
    ELSE [pass |-> "relations", entry |-> i, location |-> j]

\* The cursor of the exhaustive pass with the symbols left, the relation
\* pass when none is left.
exhaustiveCursor(s, es, edr, symbols) ==
    IF symbols = {} THEN relationCursor(s, es, edr, 1, 1)
    ELSE [pass |-> "exhaustive", symbols |-> symbols]

\* The symbols of the exhaustive pass.
allSymbols(s) ==
    {documentSymbols(s, UriLibA)[i] : i \in 1..Len(documentSymbols(s, UriLibA))}

\* Object.values(componentTypeRanges).map(processTypeDefinitionReferences)
SeedPassDone(st) ==
    /\ Continue(st, exhaustiveCursor(store, edges, st.elementDefinitionRanges,
                                     allSymbols(store)))
    /\ call' = [op |-> "seed", error |-> st.error]

SeedPass ==
    /\ phase = "naming"
    /\ cursor.pass = "none"
    /\ SeedPassDone(seedPass(store, edges, CurrentState, argv.scopes,
                             componentTypeRanges(BuildVertices(argv.input))))
    /\ UNCHANGED <<store, edges, argv, named, stdout>>

\* The body of the exhaustive pass for one document symbol; the symbols
\* are taken in any order.
DocumentSymbolDone(symbol, st) ==
    /\ Continue(st, exhaustiveCursor(store, edges, st.elementDefinitionRanges,
                                     cursor.symbols \ {symbol}))
    /\ call' = [op |-> "symbol", symbol |-> symbol, error |-> st.error,
                skipped |-> st = CurrentState]

ProcessDocumentSymbol ==
    /\ phase = "naming"
    /\ cursor.pass = "exhaustive"
    /\ \E symbol \in cursor.symbols :
        DocumentSymbolDone(symbol,
            processDocumentSymbol(store, edges, CurrentState, argv.scopes,
                                  UriLibA, symbol))
    /\ UNCHANGED <<store, edges, argv, named, stdout>>

\* The body of the relation pass for one reference location.
ReferenceLocationDone(entry, location, r) ==
    /\ Continue(r.st,
            relationCursor(store, edges, r.st.elementDefinitionRanges,
                           cursor.entry, cursor.location + 1))
    /\ call' = [op |-> "relation", id |-> entry[1], reference |-> entry[2],
                location |-> location, outcome |-> r.outcome,
                error |-> r.st.error]

ReferenceLocationAt(entry, location) ==
    ReferenceLocationDone(entry, location,
        processReferenceLocation(store, edges, CurrentState, argv.scopes,
                                 entry[1], entry[2], location))

ProcessReferenceLocation ==
    /\ phase = "naming"
    /\ cursor.pass = "relations"
    /\ ReferenceLocationAt(elementDefinitionRanges[cursor.entry],
            referenceLocations(store, edges,
                elementDefinitionRanges[cursor.entry])[cursor.location])
    /\ UNCHANGED <<store, edges, argv, named, stdout>>

\* if (argv.scopes) addElementsForScopes(model)
SynthesizeScopes ==
    /\ phase = "naming"
    /\ cursor.pass = "scopes"
    /\ model' = IF argv.scopes THEN addElementsForScopes(model) ELSE model
    /\ cursor' = [pass |-> "output"]
    /\ call' = [op |-> "scopes"]
    /\ UNCHANGED <<store, phase, edges, argv, packageMaps, named,
                   elementDefinitionRanges, resultSetIdsProcessed, stdout>>

\* console.log(header); console.log(modelIndexToDsl(model))
WriteOutput ==
    /\ phase = "naming"
    /\ cursor.pass = "output"
    /\ stdout' = stdout \o <<[line |-> "header"]>>
                    \o modelIndexToDsl(model, argv.scopes)
    /\ cursor' = [pass |-> "done"]
    /\ call' = [op |-> "output"]
    /\ UNCHANGED <<store, phase, edges, argv, packageMaps, named, model,
                   elementDefinitionRanges, resultSetIdsProcessed>>

NextBuild ==
    \/ LoadInput
    \/ BuildPackageMap
    \/ SeedPass
    \/ ProcessDocumentSymbol
    \/ ProcessReferenceLocation
    \/ SynthesizeScopes
    \/ WriteOutput

SpecBuild == InitBuild /\ [][NextBuild]_vars

\* A step of the run is left to take: the guards of the actions.
StepLeft ==
    \/ phase \in {"start", "query"}
    \/ /\ phase = "naming"
       /\ \/ cursor.pass \in {"none", "scopes", "output"}
          \/ cursor.pass = "exhaustive" /\ cursor.symbols # {}
          \/ /\ cursor.pass = "relations"
             /\ cursor.entry \in 1..Len(elementDefinitionRanges)

\* The script runs synchronously: while a step is left, a step is taken.
\* This is weak fairness of the run's steps, with the steps' guards
\* written out.
FairSpecBuild == SpecBuild /\ ([]<>(~StepLeft) \/ []<><<TRUE>>_vars)

(***************************************************************************)
(* Claims about the model builder and the DSL emitter.                     *)
(***************************************************************************)
linesOf(out, kind) == SelectSeq(out, LAMBDA l : l.line = kind)
Written == cursor.pass = "done"

\* C11: the text modelIndexToDsl produces for a model of N elements and M
\* relations has exactly N element lines and M relation lines, and every
\* element of the model is written exactly once, with the scopes flag set
\* and with it cleared.
C11_RenderRoundTrip ==
    Written =>
        /\ Len(linesOf(stdout, "element")) = Len(model.elements)
        /\ Len(linesOf(stdout, "relation")) = Len(model.relations)
        /\ \A i \in 1..Len(model.elements) :
              Cardinality({k \in 1..Len(stdout) :
                              /\ stdout[k].line = "element"
                              /\ stdout[k].id = model.elements[i].id}) = 1

\* The elements of the model with the title.
elementsTitled(title) ==
    SelectSeq(model.elements, LAMBDA el : el.title = title)

\* The input of the scenario: foo referenced once, from inside bar, and
\* nothing else.
FooReferencedInBar ==
    /\ argv.input.refFoo = "inBar"
    /\ argv.input.refBar = "none"
    /\ argv.input.deviation = "none"

\* C12: for one document with the functions foo and bar where foo is
\* referenced once, from inside bar, the completed run holds one element
\* for foo, one for bar, and exactly one relation: from bar to foo, tagged
\* reference.
C12_OneRelationBarToFoo ==
    (Written /\ FooReferencedInBar) =>
        /\ Len(elementsTitled("foo")) = 1
        /\ Len(elementsTitled("bar")) = 1
        /\ Len(model.relations) = 1
        /\ model.relations[1].source = elementsTitled("bar")[1].id
        /\ model.relations[1].target = elementsTitled("foo")[1].id
        /\ model.relations[1].tags = <<"reference">>

C12_Witness ==
    /\ Written
    /\ FooReferencedInBar
    /\ Len(model.relations) = 1
    /\ Len(linesOf(stdout, "relation")) = 1

\* The step just taken was the relation pass's body for a reference
\* location with no enclosing definition range.
SkippedNoDefinitionRange ==
    call.op = "relation" /\ call.outcome = "no definition range"

\* The input has no deviation and no reference besides the one to foo.
OnlyFooReferenced ==
    argv.input.refBar = "none" /\ argv.input.deviation = "none"

RelationsDone == phase = "naming" /\ cursor.pass \in {"scopes", "output", "done"}

\* The input in which foo and bar reference each other.
MutualReferences ==
    /\ argv.input.refFoo = "inBar"
    /\ argv.input.refBar = "inFoo"
    /\ argv.input.deviation = "none"

hasRelation(source, target) ==
    \E i \in 1..Len(model.relations) :
        /\ model.relations[i].source = source
        /\ model.relations[i].target = target

\* C14: when foo references bar and bar references foo, the model after
\* the relation pass holds the relation from foo to bar and the relation
\* from bar to foo, whichever was committed first.
C14_BothDirectionsKept ==
    (RelationsDone /\ MutualReferences) =>
        /\ Len(elementsTitled("foo")) = 1
        /\ Len(elementsTitled("bar")) = 1
        /\ hasRelation(elementsTitled("foo")[1].id, elementsTitled("bar")[1].id)
        /\ hasRelation(elementsTitled("bar")[1].id, elementsTitled("foo")[1].id)
        /\ Len(model.relations) = 2

C14_Witness ==
    /\ RelationsDone
    /\ MutualReferences
    /\ Len(model.relations) = 2
    /\ model.relations[1].source = elementsTitled("foo")[1].id
    /\ model.relations[2].source = elementsTitled("bar")[1].id

\* The builder has finished its four steps.
BuilderDone == phase = "naming" /\ cursor.pass \in {"output", "done"}

\* C15: after the four steps of the builder every element whose id has a
\* parent path has that parent path as an element of the model, with the
\* scopes flag set and with it cleared.
C15_ParentsPresent ==
    BuilderDone =>
        \A i \in 1..Len(model.elements) :
            parentOf(model.elements[i].id) # <<>> =>
                hasElement(model, parentOf(model.elements[i].id))

\* C16: every relation of the model has a source and a target that are
\* elements of the model (elements are never removed, so they were at the
\* commit), and every key of elementDefinitionRanges is the id of an
\* element of the model.
C16_EndpointsExist ==
    /\ \A i \in 1..Len(model.relations) :
          /\ hasElement(model, model.relations[i].source)
          /\ hasElement(model, model.relations[i].target)
    /\ \A id \in edrKeys(elementDefinitionRanges) : hasElement(model, id)

C16_Witness ==
    /\ call.op = "relation"
    /\ call.outcome = "added"
    /\ edrHas(elementDefinitionRanges, call.id)
    /\ \E i \in 1..Len(model.relations) : model.relations[i].target = call.id

\* The inputs with a structural error: an edge that names an id no vertex
\* has, or a processed range without a next edge.
StructuralErrors == {"badEdge", "barNoNext", "markerFCNoNext"}

\* C17: the DSL text is written only when the load and all passes are
\* over; a run that aborts has written nothing to standard output, and the
\* run over an input with a structural error never writes anything.
C17_NoPartialOutput ==
    /\ stdout # <<>> => (phase = "naming" /\ Written)
    /\ phase = "aborted" => stdout = <<>>
    /\ argv.input.deviation \in StructuralErrors => stdout = <<>>

C17_Witness ==
    /\ phase = "aborted"
    /\ argv.input.deviation = "barNoNext"
    /\ call.op = "symbol"
    /\ call.error = "TypeError: nextIndexOut[id] is undefined"
    /\ model.elements # <<>>
    /\ stdout = <<>>

\* C18: in the relation pass, when addRelation is rejected for a missing
\* source and is rejected again after the attempt to synthesize the source,
\* the relation is dropped and the run goes on: it is not aborted.
C18_FailedRetryDropsRelation ==
    (call.op = "relation" /\ call.outcome = "retry failed") =>
        /\ phase = "naming"
        /\ cursor.pass \in {"relations", "scopes"}

\* monikerIndexOut[resultSetId] narrowed to the tsc scheme: the monikers of
\* the governing scheme that the result set carries.
tscMonikersOf(resultSetId) ==
    SelectSeq(edgeTargets(edges, "moniker", resultSetId),
              LAMBDA m : store.all[m].scheme = "tsc")

\* The step just taken synthesized (or tried to) an element for a symbol
\* whose result set does not carry exactly one tsc moniker.
ResolvedAmbiguous ==
    /\ call.op = "symbol"
    /\ ~call.skipped
    /\ nextIndexOut(edges, call.symbol) # <<>>
    /\ Len(tscMonikersOf(nextIndexOut(edges, call.symbol)[1])) # 1

\* C19: resolving the moniker of a definition range for element synthesis
\* fails with an error whenever the range's result set carries no tsc
\* moniker or more than one.
C19_AmbiguousMonikerFails ==
    ResolvedAmbiguous => (call.error # NoError /\ phase = "aborted")


\* The definition ranges of the store whose result set has been processed.
definitionRangesProcessed ==
    {r \in DOMAIN store.all :
        /\ IsDefinitionRange(store.all[r])
        /\ nextIndexOut(edges, r) # <<>>
        /\ nextIndexOut(edges, r)[1] \in resultSetIdsProcessed}

\* The kinds and tags the callers of processDefinitionRange pass.
CallerKinds ==
    {<<"widget", <<"widget", "component", "react">>>>,
     <<"function", <<"document-symbol">>>>,
     <<"function", <<"unknown">>>>}

\* C20: whenever the builder is running, in any pass, a call of
\* processDefinitionRange for a definition range whose result set is in
\* resultSetIdsProcessed returns the state it was given: no element is added,
\* the model and elementDefinitionRanges are unchanged and no error is set.
C20_ProcessedResultSetIsNoOp ==
    phase = "naming" =>
        \A r \in definitionRangesProcessed : \A k \in CallerKinds :
            processDefinitionRange(store, edges, CurrentState, argv.scopes,
                                   r, k[1], k[2]) = CurrentState

\* The exhaustive pass has just met a symbol whose result set an earlier
\* call had processed, and skipped it.
C20_Witness ==
    /\ call.op = "symbol"
    /\ call.skipped
    /\ call.error = NoError
    /\ call.symbol \in definitionRangesProcessed
    /\ model.elements # <<>>


\* C21: no relation of the model has its source equal to its target, in
\* every state of the run, so also after the relation pass; the reference
\* that lies in the element's own definition range and the one in another
\* range of the same name are both skipped.
C21_NoSelfRelation ==
    \A i \in 1..Len(model.relations) :
        model.relations[i].source # model.relations[i].target

\* The relation pass has skipped a reference in another range that resolves
\* to the element's own name (the same-range case is C21_SameRangeSkipped).
C21_Witness ==
    /\ call.op = "relation"
    /\ call.outcome = "self name"
    /\ call.error = NoError
    /\ edrHas(elementDefinitionRanges, call.id)

\* The relation pass has skipped a reference lying in the element's own
\* definition range.
C21_SameRangeSkipped ==
    /\ call.op = "relation"
    /\ call.outcome = "self range"
    /\ call.error = NoError


\* A sequence that has only grown: the earlier entries are where they were.
IsPrefix(before, after) ==
    /\ Len(before) <= Len(after)
    /\ \A i \in 1..Len(before) : after[i] = before[i]

\* C22: the index maps are append-only.  In every step of the ingest, an
\* entry recorded in in.attach, out.attach or
\* textDocument_referencesIndexOut keeps its value, and the lists of
\* in.next and in.packageInformation keep their entries.
C22_IndexesAppendOnly ==
    [][\A i \in DOMAIN store.all :
        /\ store.inAttach[i] # None => store'.inAttach[i] = store.inAttach[i]
        /\ store.outAttach[i] # None => store'.outAttach[i] = store.outAttach[i]
        /\ IsPrefix(store.inNext[i], store'.inNext[i])
        /\ IsPrefix(store.inPackageInformation[i],
                    store'.inPackageInformation[i])
        /\ textDocument_referencesIndexOut(edges, i) # None =>
                textDocument_referencesIndexOut(edges', i)
                    = textDocument_referencesIndexOut(edges, i)]_vars


\* C23: the package-project association is consistent in both directions:
\* projectPackageMap[p] = k exactly when packageProjectMap[k] = p, after
\* any sequence of updatePackageMap calls.
C23_AssociationBidirectional ==
    /\ \A p \in DOMAIN packageMaps.projectPackageMap :
        /\ MapHas(packageMaps.packageProjectMap,
                  packageMaps.projectPackageMap[p])
        /\ packageMaps.packageProjectMap[packageMaps.projectPackageMap[p]] = p
    /\ \A k \in DOMAIN packageMaps.packageProjectMap :
        /\ MapHas(packageMaps.projectPackageMap,
                  packageMaps.packageProjectMap[k])
        /\ packageMaps.projectPackageMap[packageMaps.packageProjectMap[k]] = k


\* The elements scope synthesis materialized: the ones tagged scope.
scopeElements ==
    {model.elements[i] : i \in
        {j \in 1..Len(model.elements) :
            \E k \in 1..Len(model.elements[j].tags) :
                model.elements[j].tags[k] = "scope"}}

hasTag(el, tag) == \E k \in 1..Len(el.tags) : el.tags[k] = tag

\* The segments that follow the id in the ids of the model below it.
childSegments(id) ==
    {pathOf(model.elements[i].id)[Len(pathOf(id)) + 1] : i \in
        {j \in 1..Len(model.elements) :
            /\ Len(pathOf(model.elements[j].id)) > Len(pathOf(id))
            /\ SubSeq(pathOf(model.elements[j].id), 1, Len(pathOf(id)))
                    = pathOf(id)}}

\* C25: after scope synthesis every materialized element carries level-d,
\* d the number of ancestor segments of its name, and no other level tag,
\* and carries single-child exactly when one segment follows its name in
\* the trie.
C25_LevelAndSingleChild ==
    (BuilderDone /\ argv.scopes) =>
        \A el \in scopeElements :
            /\ \A d \in 0..5 :
                hasTag(el, "level-" \o ToString(d)) <=>
                    d = Len(pathOf(el.id)) - 1
            /\ hasTag(el, "single-child") <=>
                    Cardinality(childSegments(el.id)) = 1

\* Scope synthesis has materialized a root, a node with two children and a
\* deeper node with one.
C25_Witness ==
    /\ BuilderDone
    /\ argv.scopes
    /\ \E el \in scopeElements :
        Len(pathOf(el.id)) = 1 /\ hasTag(el, "single-child")
    /\ \E el \in scopeElements :
        Len(pathOf(el.id)) = 2 /\ Cardinality(childSegments(el.id)) = 2
    /\ \E el \in scopeElements :
        Len(pathOf(el.id)) = 3 /\ hasTag(el, "single-child")


\* C24: no step of the run ends with the error monikerToFqn throws when
\* getContainersForMoniker finds nothing for the moniker: a name is
\* returned for every moniker and the run goes on.
C24_NamingNeverAborts ==
    call.op \in {"seed", "symbol", "relation"} => call.error # NoContainers


(***************************************************************************)
(* Package root inference over one document: a project with one document  *)
(* that declares f, and an npm moniker attached to f's tsc moniker, with   *)
(* or without package information.  buildPackageMap infers the root when   *)
(* the package information is there, monikerToFqn when it is not.          *)
(***************************************************************************)
PackageRootUris == {UriLibA, UriSrcB, UriBelowATs, UriBelowLibATs}
PackageRootWorlds ==
    [uri : PackageRootUris, npm : NpmIdentifiers,
     hasPackageInformation : BOOLEAN]

PackageRootVertices(w) ==
    <<ProjectVertex(<<"p">>),
      DocumentVertex(w.uri),
      RangeVertex(LeafShape, "definition", "f"),
      ResultSetVertex,
      MonikerVertex("tsc", <<"a", ":", "f">>, "document"),
      MonikerVertex("npm", w.npm, "scheme"),
      PackageInformationVertex>>

PackageRootEdges(w) ==
    <<<<"contains", 1, 2>>, <<"contains", 2, 3>>, <<"next", 3, 4>>,
      <<"moniker", 4, 5>>, <<"attach", 6, 5>>>>
    \o (IF w.hasPackageInformation
        THEN <<<<"packageInformation", 6, 7>>>> ELSE <<>>)

InitPackageRoot ==
    \E w \in PackageRootWorlds : \E scopes \in BOOLEAN :
        /\ store = load(PackageRootVertices(w), PackageRootEdges(w))
        /\ phase = "query"
        /\ edges = PackageRootEdges(w)
        /\ call = NoCall
        /\ argv = [scopes |-> scopes]
        /\ packageMaps = EmptyPackageMaps
        /\ named = EmptyMap
        /\ InitBuilder

SpecPackageRoot == InitPackageRoot /\ [][NextNaming]_vars

\* The document and the path of the npm moniker of the input.
documentUri == store.all[2].uri
npmPathName == split(store.all[6].identifier, ":")[2]
npmSourcePathName == join(Tail(split(npmPathName, "/")), <<"/">>)

\* C26: the root stored for the package is the document uri without the
\* matched suffix at its end: the root followed by the path of the moniker,
\* or by that path without its first folder, is the document uri.
C26_RootIsUriWithoutSuffix ==
    \A k \in DOMAIN packageMaps.packageRootMap :
        \/ packageMaps.packageRootMap[k] \o npmPathName = documentUri
        \/ packageMaps.packageRootMap[k] \o npmSourcePathName = documentUri

(***************************************************************************)
(* The order of the model block.                                           *)
(***************************************************************************)
\* The lines of the written text that name an element, and those that
\* name a relation, by their position.
elementLineAt(i) == stdout[i].line = "element"
relationLineAt(i) == stdout[i].line = "relation"

\* The block that element line j opens is still open at line i.
blockOpenAt(j, i) ==
    /\ j < i
    /\ \A k \in (j + 1)..(i - 1) :
          ~(stdout[k].line = "close" /\ stdout[k].indent = stdout[j].indent + 1)

\* The model with its elements in the opposite order of insertion.
reverseSeq(seq) == [i \in 1..Len(seq) |-> seq[Len(seq) + 1 - i]]
reverseInserted(m) == [m EXCEPT !.elements = reverseSeq(m.elements)]

\* C27: modelIndexToDsl writes the model block in an order that does not
\* depend on the order in which the elements were added: siblings (roots
\* among themselves, the children of one element among themselves) are
\* written in ascending order of id, every child is written inside the open
\* block of its parent one level deeper, and every relation line follows
\* every element line.
C27_ModelBlockOrder ==
    cursor.pass = "done" =>
        /\ \A i \in 1..Len(stdout) : \A j \in 1..Len(stdout) :
              (elementLineAt(i) /\ elementLineAt(j) /\ i < j
                 /\ parentOf(stdout[i].id) = parentOf(stdout[j].id))
                  => localeBefore(stdout[i].id, stdout[j].id)
        /\ \A i \in 1..Len(stdout) :
              elementLineAt(i) =>
                  IF stdout[i].indent = 1
                  THEN parentOf(stdout[i].id) = <<>>
                  ELSE \E j \in 1..(i - 1) :
                          /\ elementLineAt(j)
                          /\ stdout[j].id = parentOf(stdout[i].id)
                          /\ stdout[j].indent = stdout[i].indent - 1
                          /\ blockOpenAt(j, i)
        /\ \A i \in 1..Len(stdout) : \A j \in 1..Len(stdout) :
              (elementLineAt(i) /\ relationLineAt(j)) => i < j
        /\ modelIndexToDsl(reverseInserted(model), argv.scopes)
              = modelIndexToDsl(model, argv.scopes)

\* The text was written with two siblings that were added in descending
\* order of id, a child inside its parent, and a relation line.
C27_Witness ==
    /\ cursor.pass = "done"
    /\ \E i \in 1..Len(stdout) : relationLineAt(i)
    /\ \E i \in 1..Len(stdout) :
          elementLineAt(i) /\ stdout[i].indent > 1
    /\ \E a \in 1..Len(model.elements) : \E b \in 1..Len(model.elements) :
          /\ a < b
          /\ parentOf(model.elements[a].id) = parentOf(model.elements[b].id)
          /\ localeBefore(model.elements[b].id, model.elements[a].id)
          /\ \E i \in 1..Len(stdout) :
                elementLineAt(i) /\ stdout[i].id = model.elements[a].id

(***************************************************************************)
(* The dedicated views.                                                    *)
(***************************************************************************)
\* The positions of the written text that hold the dedicated view of id.
viewsOf(id) ==
    {i \in 1..Len(stdout) :
        /\ stdout[i].line = "view"
        /\ stdout[i].name = "of"
        /\ stdout[i].of = id}

\* C28: the views block holds exactly one dedicated view 'view ... of id'
\* for every element of the model that has at least one child, and none
\* for an element without children.
C28_OneViewPerContainer ==
    cursor.pass = "done" =>
        \A i \in 1..Len(model.elements) :
            Cardinality(viewsOf(model.elements[i].id))
                = IF children(model, model.elements[i].id) # <<>> THEN 1 ELSE 0

\* The text was written for a model with an element that has children and
\* an element that has none.
C28_Witness ==
    /\ cursor.pass = "done"
    /\ \E i \in 1..Len(model.elements) :
          /\ children(model, model.elements[i].id) # <<>>
          /\ viewsOf(model.elements[i].id) # {}
    /\ \E i \in 1..Len(model.elements) :
          children(model, model.elements[i].id) = <<>>

(***************************************************************************)
(* The kind of a materialized element.                                     *)
(***************************************************************************)
\* The kind the name alone gives: package for a name that ends with Pkg,
\* folder for one that folderRegex matches from its start, scope otherwise.
kindOfName(name) ==
    IF endsWith(name, <<"P", "k", "g">>) THEN "package"
    ELSE IF folderRegexTest(name, 0).matches THEN "folder"
    ELSE "scope"

\* C29: the kind scope synthesis gives a materialized element is a function
\* of the element's name alone; it does not depend on the names that
\* addElementsForScopes tested before it.
C29_KindFromNameAlone ==
    \A el \in scopeElements : el.kind = kindOfName(nameFromFqn(el.id))

(***************************************************************************)
(* The relation pass over a map that grows while it is iterated.           *)
(***************************************************************************)
\* The most entries elementDefinitionRanges has in a run, and the most
\* reference locations an entry has.
MaxEntries == 3
MaxLocations == 2

inRelationPass == phase = "naming" /\ cursor.pass = "relations"

\* The reference locations of the i-th entry.
locationsOf(i) == referenceLocations(store, edges, elementDefinitionRanges[i])

\* The j-th reference location of the i-th entry exists and the pass has
\* not come to it yet.
pendingLocation(i, j) ==
    /\ inRelationPass
    /\ i \in 1..Len(elementDefinitionRanges)
    /\ j \in 1..Len(locationsOf(i))
    /\ \/ cursor.entry < i
       \/ cursor.entry = i /\ cursor.location <= j

\* The pass has just run its body for the j-th reference location of the
\* i-th entry.
processedLocation(i, j) ==
    /\ call.op = "relation"
    /\ i \in 1..Len(elementDefinitionRanges)
    /\ j \in 1..Len(locationsOf(i))
    /\ call.id = elementDefinitionRanges[i][1]
    /\ call.reference = elementDefinitionRanges[i][2]
    /\ call.location = locationsOf(i)[j]

\* During the pass the map only grows at its end, and only by an entry of
\* a result set that was not processed before.
growsBySynthesis ==
    inRelationPass =>
        /\ IsPrefix(elementDefinitionRanges, elementDefinitionRanges')
        /\ elementDefinitionRanges' # elementDefinitionRanges =>
              /\ Len(elementDefinitionRanges')
                    = Len(elementDefinitionRanges) + 1
              /\ Cardinality(resultSetIdsProcessed')
                    = Cardinality(resultSetIdsProcessed) + 1

\* C30: the relation pass covers the elements added while it runs and
\* terminates: the entries of elementDefinitionRanges are never replaced
\* during the pass and each new one comes from a result set processed for
\* the first time; every reference location of every entry, an entry
\* synthesized during the pass included, is processed unless the run is
\* aborted by an error; and the pass ends.
C30_RelationPassCoversAndEnds ==
    /\ [][growsBySynthesis]_vars
    /\ \A i \in 1..MaxEntries : \A j \in 1..MaxLocations :
          pendingLocation(i, j)
              ~> (processedLocation(i, j) \/ phase = "aborted")
    /\ inRelationPass ~> ~inRelationPass
    /\ [](Len(elementDefinitionRanges) <= MaxEntries
          /\ (phase = "naming" =>
                \A i \in 1..Len(elementDefinitionRanges) :
                    Len(locationsOf(i)) <= MaxLocations))

\* The pass has ended in a run in which it synthesized the source element
\* of a rejected relation, and the reference to that element was processed
\* too: the model has a relation to it.
C30_Witness ==
    /\ phase = "naming"
    /\ cursor.pass = "scopes"
    /\ \E i \in 1..Len(model.elements) :
          /\ hasTag(model.elements[i], "unknown")
          /\ edrHas(elementDefinitionRanges, model.elements[i].id)
          /\ \E k \in 1..Len(model.relations) :
                model.relations[k].target = model.elements[i].id
          /\ \E k \in 1..Len(model.relations) :
                model.relations[k].source = model.elements[i].id

=============================================================================
